---- MODULE Spec2Model ----
(***************************************************************************)
(* The local document store of the dataset builder (lib/store.js) and its  *)
(* history ledger.  A JavaScript string is modelled as the sequence of its *)
(* characters, a JSON array as a sequence, a JSON object with fixed fields *)
(* as a record and a JSON object with free keys (a metadata object) as the *)
(* sequence of its [key, value] entries in insertion order.  The data      *)
(* directory is the function `files` from file names to parsed documents.  *)
(* Timestamps (createdAt, a commit's timestamp and the free-text summary   *)
(* built from it) are not modelled: no store operation reads them.         *)
(***************************************************************************)
EXTENDS Integers, Sequences, FiniteSets, TLC

VARIABLES files, ret, recorded, calls,
          sessionWs, sessionBase, sessionCode, sockets, inflight, routed

vars == <<calls, files, recorded, ret,
          sessionWs, sessionBase, sessionCode, sockets, inflight, routed>>

\* the state of the server process outside the store: the session variables of
\* index.js, the WebSockets it created, the tool calls in flight and, for each
\* handler slot, how its last call was routed
server == <<sessionWs, sessionBase, sessionCode, sockets, inflight, routed>>

-----------------------------------------------------------------------------
(* Bounds of the model.                                                    *)

\* randomUUID() values available for chunk _uid's
MaxUid == 5

\* tool calls in flight at once, WebSockets created, and tool calls dispatched in
\* the model of the server process
MaxInflight == 2
MaxSockets == 2
MaxServerCalls == 4
\* randomUUID() values available for category ids
MaxCatId == 3
\* commits recorded per run of the full store model
MaxCommits == 2
\* store calls per run
MaxCalls == 4
\* longest chunk id a duplicate is given
MaxIdLen == 8
\* commits recorded per run of the history-ledger model
MaxRecorded == 60
\* rollbacks per run of the history-ledger model
MaxHistRollbacks == 1

\* calls in a run of the one-project specification
MaxDeepCalls == 5

-----------------------------------------------------------------------------
(* JavaScript strings and values.                                          *)

\* the value `undefined` (also stands for an absent optional argument)
Undefined == <<"undefined">>

Str1(c) == <<c>>

UpperCase == <<"A","B","C","D","E","F","G","H","I","J","K","L","M",
               "N","O","P","Q","R","S","T","U","V","W","X","Y","Z">>
LowerCase == <<"a","b","c","d","e","f","g","h","i","j","k","l","m",
               "n","o","p","q","r","s","t","u","v","w","x","y","z">>
DigitChars == <<"0","1","2","3","4","5","6","7","8","9">>

Range(s) == {s[i] : i \in DOMAIN s}

LowerChar(c) ==
  IF \E i \in DOMAIN UpperCase : UpperCase[i] = c
    THEN LowerCase[CHOOSE i \in DOMAIN UpperCase : UpperCase[i] = c]
    ELSE c

\* String.prototype.toLowerCase
ToLowerCase(s) == [i \in DOMAIN s |-> LowerChar(s[i])]

IsSpace(c) == c = " "

RECURSIVE TrimStart(_)
TrimStart(s) ==
  IF s # <<>> /\ IsSpace(Head(s)) THEN TrimStart(Tail(s)) ELSE s

RECURSIVE TrimEnd(_)
TrimEnd(s) ==
  IF s # <<>> /\ IsSpace(s[Len(s)]) THEN TrimEnd(SubSeq(s, 1, Len(s) - 1)) ELSE s

\* String.prototype.trim
Trim(s) == TrimEnd(TrimStart(s))

\* a JavaScript value used as a condition
Truthy(v) == v # Undefined /\ v # <<>>

\* a || b
Or(a, b) == IF Truthy(a) THEN a ELSE b

\* String(v ?? '')
StringOf(v) == IF v = Undefined THEN <<>> ELSE v

RECURSIVE NatToStr(_)
\* `${n}` for a non-negative integer
NatToStr(n) ==
  IF n < 10 THEN Str1(DigitChars[n + 1])
  ELSE NatToStr(n \div 10) \o Str1(DigitChars[(n % 10) + 1])

DEFAULT_LICENSE ==
  <<"C","C"," ","B","Y","-","N","C","-","S","A"," ","3",".","0">>

kPageTitle == <<"p","a","g","e","_","t","i","t","l","e">>
kSource == <<"s","o","u","r","c","e">>
kLicense == <<"l","i","c","e","n","s","e">>

STANDARD_META == <<kPageTitle, kSource, kLicense>>

MAX_HISTORY == 50

IsStandard(k) == k \in Range(STANDARD_META)

\* obj[k] of a metadata object (undefined when the key is absent)
ObjGet(obj, k) ==
  IF \E i \in DOMAIN obj : obj[i].key = k
    THEN obj[CHOOSE i \in DOMAIN obj : obj[i].key = k].value
    ELSE Undefined

\* obj[k] = v: an existing key keeps its place, a new key is appended
ObjSet(obj, k, v) ==
  IF \E i \in DOMAIN obj : obj[i].key = k
    THEN [i \in DOMAIN obj |-> IF obj[i].key = k THEN [key |-> k, value |-> v] ELSE obj[i]]
    ELSE Append(obj, [key |-> k, value |-> v])

\* the three standard slots of a chunk as a metadata object ({ ...ch.metadata })
MetaObj(m) ==
  << [key |-> kPageTitle, value |-> m.page_title],
     [key |-> kSource, value |-> m.source],
     [key |-> kLicense, value |-> m.license] >>

NotStandardEntry(e) == ~IsStandard(e.key)

\* an absent metadata argument: everywhere the store reads one (metadata?.x,
\* _parseCustomFields, `metadata || {}`, updateChunk's custom.length test) it
\* behaves as the empty object
NoMetadata == <<>>

\* Store._parseCustomFields
ParseCustomFields(metadata) ==
  LET rest == SelectSeq(metadata, NotStandardEntry)
  IN [i \in DOMAIN rest |-> [key |-> rest[i].key, value |-> StringOf(rest[i].value)]]

-----------------------------------------------------------------------------
(* Documents.  A project document is [name, categories]; a category is     *)
(* [id, name, expanded, chunks]; a chunk is [uid, id, text, metadata,      *)
(* customFields]; a history document is [project, commits]; a commit is    *)
(* [id, source, action, stats, snapshot].                                  *)

\* no excludeUid argument (uuids are the positive integers)
NoUid == 0

Min(a, b) == IF a < b THEN a ELSE b

RECURSIVE SumSeq(_)
SumSeq(s) == IF s = <<>> THEN 0 ELSE Head(s) + SumSeq(Tail(s))

RECURSIVE Flatten(_)
Flatten(ss) == IF ss = <<>> THEN <<>> ELSE Head(ss) \o Flatten(Tail(ss))

\* every chunk of a project document, in category then chunk order
AllChunks(data) == Flatten([i \in DOMAIN data.categories |-> data.categories[i].chunks])

\* data.categories.reduce((sum, c) => sum + c.chunks.length, 0)
TotalChunks(data) == SumSeq([i \in DOMAIN data.categories |-> Len(data.categories[i].chunks)])

\* Array.prototype.findIndex, 1-based, 0 when nothing matches
FindIndex(s, P(_)) ==
  IF \E i \in DOMAIN s : P(s[i])
    THEN CHOOSE i \in DOMAIN s : P(s[i]) /\ \A j \in 1..(i - 1) : ~P(s[j])
    ELSE 0

RemoveAt(s, i) == SubSeq(s, 1, i - 1) \o SubSeq(s, i + 1, Len(s))

Ok(data, val) == [err |-> "none", data |-> data, val |-> val, starved |-> FALSE]

Fail(kind) == [err |-> kind, data |-> Undefined, val |-> Undefined, starved |-> FALSE]

\* the model ran out of uuids: the step is left out of the model
Starved == [err |-> "none", data |-> Undefined, val |-> Undefined, starved |-> TRUE]

\* Store._isIdTaken
IsIdTaken(data, id, excludeUid) ==
  \E ci \in DOMAIN data.categories :
    \E ki \in DOMAIN data.categories[ci].chunks :
      /\ data.categories[ci].chunks[ki].id = id
      /\ data.categories[ci].chunks[ki].uid # excludeUid

\* Store._findCategory: the index of the category, 0 where the code throws
FindCategory(data, name) ==
  LET Match(c) == ToLowerCase(c.name) = ToLowerCase(name)
  IN FindIndex(data.categories, Match)

\* the loop `for (const cat of data.categories) { ... c.id === chunkId ... }`:
\* the first category holding a chunk with this id, and the chunk's index in it
LocateChunk(data, chunkId) ==
  LET HasId(ch) == ch.id = chunkId
      Holds(c) == FindIndex(c.chunks, HasId) # 0
      ci == FindIndex(data.categories, Holds)
  IN IF ci = 0 THEN [ci |-> 0, ki |-> 0]
     ELSE [ci |-> ci, ki |-> FindIndex(data.categories[ci].chunks, HasId)]

\* Store.createCategory, after _load
CreateCategoryOp(data, categoryName, newCatId) ==
  LET trimmed == Trim(categoryName)
      cat == [id |-> newCatId, name |-> trimmed, expanded |-> Undefined, chunks |-> <<>>]
  IN IF trimmed = <<>> THEN Fail("EmptyName")
     ELSE IF \E i \in DOMAIN data.categories :
               ToLowerCase(data.categories[i].name) = ToLowerCase(trimmed)
       THEN Fail("DuplicateCategory")
     ELSE Ok([data EXCEPT !.categories = Append(@, cat)], cat)

\* renameCategory counting the renamed category itself as a holder of the name
RenameCategoryOpNoSelf(data, oldName, newName) ==
  LET ci == FindCategory(data, oldName)
      trimmed == Trim(newName)
  IN IF ci = 0 THEN Fail("NotFound")
     ELSE IF trimmed = <<>> THEN Fail("EmptyName")
     ELSE IF \E i \in DOMAIN data.categories :
               ToLowerCase(data.categories[i].name) = ToLowerCase(trimmed)
       THEN Fail("DuplicateCategory")
     ELSE Ok([data EXCEPT !.categories[ci].name = trimmed],
             [old |-> oldName, new |-> trimmed])

\* renameCategory comparing the names as written, not case-insensitively
RenameCategoryOpExactCase(data, oldName, newName) ==
  LET ci == FindCategory(data, oldName)
      trimmed == Trim(newName)
  IN IF ci = 0 THEN Fail("NotFound")
     ELSE IF trimmed = <<>> THEN Fail("EmptyName")
     ELSE IF \E i \in DOMAIN data.categories :
               /\ data.categories[i].name = trimmed
               /\ data.categories[i].id # data.categories[ci].id
       THEN Fail("DuplicateCategory")
     ELSE Ok([data EXCEPT !.categories[ci].name = trimmed],
             [old |-> oldName, new |-> trimmed])

\* Store.renameCategory, after _load
RenameCategoryOp(data, oldName, newName) ==
  LET ci == FindCategory(data, oldName)
      trimmed == Trim(newName)
  IN IF ci = 0 THEN Fail("NotFound")
     ELSE IF trimmed = <<>> THEN Fail("EmptyName")
     ELSE IF \E i \in DOMAIN data.categories :
               /\ ToLowerCase(data.categories[i].name) = ToLowerCase(trimmed)
               /\ data.categories[i].id # data.categories[ci].id
       THEN Fail("DuplicateCategory")
     ELSE Ok([data EXCEPT !.categories[ci].name = trimmed],
             [old |-> oldName, new |-> trimmed])

\* Store.deleteCategory, after _load
DeleteCategoryOp(data, categoryName) ==
  LET ci == FindCategory(data, categoryName)
  IN IF ci = 0 THEN Fail("NotFound")
     ELSE Ok([data EXCEPT !.categories = RemoveAt(@, ci)],
             [deleted |-> data.categories[ci].name,
              chunksRemoved |-> Len(data.categories[ci].chunks)])

\* chunk.metadata?.[k]
MetaGet(metadata, k) == ObjGet(metadata, k)

\* the chunk literal built by addChunk and bulkAddChunks
NewChunk(chunk, id, uid) ==
  [uid |-> uid,
   id |-> id,
   text |-> Or(chunk.text, <<>>),
   metadata |->
     [page_title |-> Or(chunk.page_title, Or(MetaGet(chunk.metadata, kPageTitle), <<>>)),
      source |-> Or(chunk.source, Or(MetaGet(chunk.metadata, kSource), <<>>)),
      license |-> Or(chunk.license, Or(MetaGet(chunk.metadata, kLicense), DEFAULT_LICENSE))],
   customFields |-> ParseCustomFields(chunk.metadata)]

\* addChunk looking for the id in the named category only
AddChunkOpThisCategory(data, categoryName, chunk, newUid) ==
  LET ci == FindCategory(data, categoryName)
      id == Trim(Or(chunk.id, <<>>))
  IN IF ci = 0 THEN Fail("NotFound")
     ELSE IF id = <<>> THEN Fail("EmptyId")
     ELSE IF \E k \in DOMAIN data.categories[ci].chunks : data.categories[ci].chunks[k].id = id
       THEN Fail("DuplicateChunkId")
     ELSE Ok([data EXCEPT !.categories[ci].chunks = Append(@, NewChunk(chunk, id, newUid))],
             [id |-> id, category |-> data.categories[ci].name])

\* Store.addChunk, after _load
AddChunkOp(data, categoryName, chunk, newUid) ==
  LET ci == FindCategory(data, categoryName)
      id == Trim(Or(chunk.id, <<>>))
  IN IF ci = 0 THEN Fail("NotFound")
     ELSE IF id = <<>> THEN Fail("EmptyId")
     ELSE IF IsIdTaken(data, id, NoUid) THEN Fail("DuplicateChunkId")
     ELSE Ok([data EXCEPT !.categories[ci].chunks = Append(@, NewChunk(chunk, id, newUid))],
             [id |-> id, category |-> data.categories[ci].name])

RECURSIVE BulkAddLoopUntrimmedCheck(_, _, _, _, _, _)
\* the loop asking _isIdTaken about the id as given and storing the trimmed one
BulkAddLoopUntrimmedCheck(data, ci, chunks, fresh, added, errors) ==
  IF chunks = <<>>
    THEN Ok(data, [added |-> Len(added), errors |-> Len(errors), ids |-> added])
  ELSE LET chunk == Head(chunks)
           id == Trim(Or(chunk.id, <<>>))
       IN IF id = <<>>
            THEN BulkAddLoopUntrimmedCheck(data, ci, Tail(chunks), fresh, added,
                             Append(errors, [id |-> id, reason |-> "ID is required"]))
          ELSE IF IsIdTaken(data, chunk.id, NoUid)
            THEN BulkAddLoopUntrimmedCheck(data, ci, Tail(chunks), fresh, added,
                             Append(errors, [id |-> id, reason |-> "Duplicate ID"]))
          ELSE IF fresh = <<>> THEN Starved
          ELSE BulkAddLoopUntrimmedCheck(
                 [data EXCEPT !.categories[ci].chunks =
                                 Append(@, NewChunk(chunk, id, Head(fresh)))],
                 ci, Tail(chunks), Tail(fresh), Append(added, id), errors)

RECURSIVE BulkAddLoop(_, _, _, _, _, _)
\* the for loop of bulkAddChunks over the entries still to process
BulkAddLoop(data, ci, chunks, fresh, added, errors) ==
  IF chunks = <<>>
    THEN Ok(data, [added |-> Len(added), errors |-> Len(errors), ids |-> added])
  ELSE LET chunk == Head(chunks)
           id == Trim(Or(chunk.id, <<>>))
       IN IF id = <<>>
            THEN BulkAddLoop(data, ci, Tail(chunks), fresh, added,
                             Append(errors, [id |-> <<"(","e","m","p","t","y",")">>,
                                             reason |-> "ID is required"]))
          ELSE IF IsIdTaken(data, id, NoUid)
            THEN BulkAddLoop(data, ci, Tail(chunks), fresh, added,
                             Append(errors, [id |-> id, reason |-> "Duplicate ID"]))
          ELSE IF fresh = <<>> THEN Starved
          ELSE BulkAddLoop(
                 [data EXCEPT !.categories[ci].chunks =
                                 Append(@, NewChunk(chunk, id, Head(fresh)))],
                 ci, Tail(chunks), Tail(fresh), Append(added, id), errors)

\* Store.bulkAddChunks, after _load
BulkAddChunksOp(data, categoryName, chunks, fresh) ==
  LET ci == FindCategory(data, categoryName)
  IN IF ci = 0 THEN Fail("NotFound")
     ELSE BulkAddLoop(data, ci, chunks, fresh, <<>>, <<>>)

\* the absent fields of an `updates` argument are undefined
NoUpdates ==
  [newId |-> Undefined, text |-> Undefined, page_title |-> Undefined,
   source |-> Undefined, license |-> Undefined, metadata |-> NoMetadata]

\* the body of updateChunk's loop for the chunk found: its new value
UpdatedChunk(ch, chunkId, updates) ==
  LET c1 == IF Truthy(updates.newId) /\ updates.newId # chunkId
              THEN [ch EXCEPT !.id = Trim(updates.newId)] ELSE ch
      c2 == IF updates.text # Undefined THEN [c1 EXCEPT !.text = updates.text] ELSE c1
      c3 == IF updates.page_title # Undefined
              THEN [c2 EXCEPT !.metadata.page_title = updates.page_title] ELSE c2
      c4 == IF updates.source # Undefined
              THEN [c3 EXCEPT !.metadata.source = updates.source] ELSE c3
      c5 == IF updates.license # Undefined
              THEN [c4 EXCEPT !.metadata.license = updates.license] ELSE c4
      custom == ParseCustomFields(updates.metadata)
  IN IF Len(custom) # 0
       THEN [c5 EXCEPT !.customFields = custom] ELSE c5

\* Store.updateChunk, after _load
UpdateChunkOp(data, chunkId, updates) ==
  LET at == LocateChunk(data, chunkId)
      ch == data.categories[at.ci].chunks[at.ki]
      new == UpdatedChunk(ch, chunkId, updates)
  IN IF at.ci = 0 THEN Fail("NotFound")
     ELSE IF /\ Truthy(updates.newId) /\ updates.newId # chunkId
             /\ IsIdTaken(data, updates.newId, ch.uid)
       THEN Fail("DuplicateChunkId")
     ELSE Ok([data EXCEPT !.categories[at.ci].chunks[at.ki] = new],
             [updated |-> new.id, category |-> data.categories[at.ci].name])

\* Store.deleteChunk, after _load
DeleteChunkOp(data, chunkId) ==
  LET at == LocateChunk(data, chunkId)
  IN IF at.ci = 0 THEN Fail("NotFound")
     ELSE Ok([data EXCEPT !.categories[at.ci].chunks = RemoveAt(@, at.ki)],
             [deleted |-> chunkId, category |-> data.categories[at.ci].name])

CopySuffix == <<"_","c","o","p","y">>

RECURSIVE CopyId(_, _, _, _)
\* while (this._isIdTaken(data, newId)) { newId = `${chunkId}_copy_${n++}`; }
CopyId(data, chunkId, newId, n) ==
  IF IsIdTaken(data, newId, NoUid)
    THEN CopyId(data, chunkId, chunkId \o CopySuffix \o <<"_">> \o NatToStr(n), n + 1)
    ELSE newId

\* duplicateChunk numbering its candidates from _copy_0
DuplicateChunkOpFromZero(data, chunkId, newUid) ==
  LET at == LocateChunk(data, chunkId)
      ch == data.categories[at.ci].chunks[at.ki]
      newId == CopyId(data, chunkId, chunkId \o CopySuffix, 0)
      clone == [ch EXCEPT !.uid = newUid, !.id = newId]
  IN IF at.ci = 0 THEN Fail("NotFound")
     ELSE Ok([data EXCEPT !.categories[at.ci].chunks = Append(@, clone)],
             [original |-> chunkId, duplicate |-> newId,
              category |-> data.categories[at.ci].name])

\* Store.duplicateChunk, after _load
DuplicateChunkOp(data, chunkId, newUid) ==
  LET at == LocateChunk(data, chunkId)
      ch == data.categories[at.ci].chunks[at.ki]
      newId == CopyId(data, chunkId, chunkId \o CopySuffix, 1)
      clone == [ch EXCEPT !.uid = newUid, !.id = newId]
  IN IF at.ci = 0 THEN Fail("NotFound")
     ELSE Ok([data EXCEPT !.categories[at.ci].chunks = Append(@, clone)],
             [original |-> chunkId, duplicate |-> newId,
              category |-> data.categories[at.ci].name])

\* moveChunk without the test for the chunk's own category
MoveChunkOpNoSameTest(data, chunkId, targetCategory) ==
  LET ti == FindCategory(data, targetCategory)
      at == LocateChunk(data, chunkId)
      chunk == data.categories[at.ci].chunks[at.ki]
      spliced == [data EXCEPT !.categories[at.ci].chunks = RemoveAt(@, at.ki)]
  IN IF ti = 0 THEN Fail("NotFound")
     ELSE IF at.ci = 0 THEN Fail("NotFound")
     ELSE Ok([spliced EXCEPT !.categories[ti].chunks = Append(@, chunk)],
             [moved |-> chunkId, from |-> data.categories[at.ci].name,
              to |-> data.categories[ti].name])

\* moveChunk without the splice out of the source category
MoveChunkOpNoSplice(data, chunkId, targetCategory) ==
  LET ti == FindCategory(data, targetCategory)
      at == LocateChunk(data, chunkId)
      chunk == data.categories[at.ci].chunks[at.ki]
  IN IF ti = 0 THEN Fail("NotFound")
     ELSE IF at.ci = 0 THEN Fail("NotFound")
     ELSE IF data.categories[at.ci].id = data.categories[ti].id
       THEN Fail("AlreadyInCategory")
     ELSE Ok([data EXCEPT !.categories[ti].chunks = Append(@, chunk)],
             [moved |-> chunkId, from |-> data.categories[at.ci].name,
              to |-> data.categories[ti].name])

\* Store.moveChunk, after _load
MoveChunkOp(data, chunkId, targetCategory) ==
  LET ti == FindCategory(data, targetCategory)
      at == LocateChunk(data, chunkId)
      chunk == data.categories[at.ci].chunks[at.ki]
      spliced == [data EXCEPT !.categories[at.ci].chunks = RemoveAt(@, at.ki)]
  IN IF ti = 0 THEN Fail("NotFound")
     ELSE IF at.ci = 0 THEN Fail("NotFound")
     ELSE IF data.categories[at.ci].id = data.categories[ti].id
       THEN Fail("AlreadyInCategory")
     ELSE Ok([spliced EXCEPT !.categories[ti].chunks = Append(@, chunk)],
             [moved |-> chunkId, from |-> data.categories[at.ci].name,
              to |-> data.categories[ti].name])

RECURSIVE ApplyCustom(_, _)
\* the loop over ch.customFields of an export: later entries overwrite
ApplyCustom(obj, customFields) ==
  IF customFields = <<>> THEN obj
  ELSE LET cf == Head(customFields)
       IN IF Truthy(cf.key) /\ Truthy(Trim(cf.key))
            THEN ApplyCustom(ObjSet(obj, Trim(cf.key), StringOf(cf.value)), Tail(customFields))
            ELSE ApplyCustom(obj, Tail(customFields))

\* the flat record an export makes of one chunk
ExportEntry(ch) ==
  [id |-> ch.id, text |-> ch.text, metadata |-> ApplyCustom(MetaObj(ch.metadata), ch.customFields)]

\* Store.exportProject, after _load
ExportProjectOp(data) ==
  LET all == AllChunks(data) IN [i \in DOMAIN all |-> ExportEntry(all[i])]

\* Store.exportCategory, after _load
ExportCategoryOp(data, categoryName) ==
  LET ci == FindCategory(data, categoryName)
      chunks == data.categories[ci].chunks
  IN IF ci = 0 THEN Fail("NotFound")
     ELSE Ok(data, [i \in DOMAIN chunks |-> ExportEntry(chunks[i])])

\* the chunk literal built by importJSON from one record
ImportedChunk(entry, id, uid) ==
  LET meta == entry.metadata
      rest == SelectSeq(meta, NotStandardEntry)
  IN [uid |-> uid,
      id |-> id,
      text |-> Or(entry.text, <<>>),
      metadata |-> [page_title |-> Or(ObjGet(meta, kPageTitle), <<>>),
                    source |-> Or(ObjGet(meta, kSource), <<>>),
                    license |-> Or(ObjGet(meta, kLicense), DEFAULT_LICENSE)],
      customFields |->
        [i \in DOMAIN rest |-> [key |-> rest[i].key, value |-> StringOf(rest[i].value)]]]

RECURSIVE ImportLoop(_, _, _, _, _, _)
\* the for loop of importJSON over the records still to process
ImportLoop(data, ci, entries, fresh, imported, skipped) ==
  IF entries = <<>> THEN Ok(data, [imported |-> imported, skipped |-> skipped])
  ELSE LET entry == Head(entries)
           id == Trim(Or(entry.id, <<>>))
       IN IF id = <<>> \/ IsIdTaken(data, id, NoUid)
            THEN ImportLoop(data, ci, Tail(entries), fresh, imported, skipped + 1)
          ELSE IF fresh = <<>> THEN Starved
          ELSE ImportLoop(
                 [data EXCEPT !.categories[ci].chunks =
                                 Append(@, ImportedChunk(entry, id, Head(fresh)))],
                 ci, Tail(entries), Tail(fresh), imported + 1, skipped)

DefaultImportCategory == <<"I","m","p","o","r","t","e","d">>

\* Store.importJSON from `const catName` on: data is the loaded or the just
\* created document
ImportIntoOp(data, jsonArray, categoryName, newCatId, fresh) ==
  LET catName == Or(categoryName, DefaultImportCategory)
      Match(c) == ToLowerCase(c.name) = ToLowerCase(catName)
      found == FindIndex(data.categories, Match)
      cat == [id |-> newCatId, name |-> catName, expanded |-> Undefined, chunks |-> <<>>]
      withCat == IF found = 0 THEN [data EXCEPT !.categories = Append(@, cat)] ELSE data
      ci == IF found = 0 THEN Len(withCat.categories) ELSE found
  IN IF found = 0 /\ newCatId = 0 THEN Starved
     ELSE ImportLoop(withCat, ci, jsonArray, fresh, 0, 0)

\* the else branch always pushing a new custom field
UpsertCustomAlwaysPush(customFields, field, value) ==
  Append(customFields, [key |-> field, value |-> value])

\* ch.customFields after bulkUpdateMetadata's upsert of a non-standard field
UpsertCustom(customFields, field, value) ==
  LET HasKey(cf) == cf.key = field
      i == FindIndex(customFields, HasKey)
  IN IF i # 0 THEN [customFields EXCEPT ![i].value = value]
     ELSE Append(customFields, [key |-> field, value |-> value])

\* the body of bulkUpdateMetadata's inner loop
WithField(ch, field, value) ==
  IF IsStandard(field)
    THEN [ch EXCEPT !.metadata =
            [page_title |-> IF field = kPageTitle THEN value ELSE @.page_title,
             source |-> IF field = kSource THEN value ELSE @.source,
             license |-> IF field = kLicense THEN value ELSE @.license]]
    ELSE [ch EXCEPT !.customFields = UpsertCustom(@, field, value)]

\* Store.bulkUpdateMetadata, after _load
BulkUpdateMetadataOp(data, field, value, categoryName) ==
  LET ci == FindCategory(data, categoryName)
      InScope(i) == ~Truthy(categoryName) \/ i = ci
      Touch(c) == [c EXCEPT !.chunks = [k \in DOMAIN c.chunks |-> WithField(c.chunks[k], field, value)]]
      new == [data EXCEPT !.categories =
                [i \in DOMAIN data.categories |->
                   IF InScope(i) THEN Touch(data.categories[i]) ELSE data.categories[i]]]
      updated == SumSeq([i \in DOMAIN data.categories |->
                           IF InScope(i) THEN Len(data.categories[i].chunks) ELSE 0])
  IN IF Truthy(categoryName) /\ ci = 0 THEN Fail("NotFound")
     ELSE Ok(new, [updated |-> updated])

\* the value `true`
JsTrue == <<"true">>

RECURSIVE MergeChunksThisCategory(_, _, _, _, _, _)
\* the inner loop looking for the id in the matched target category only
MergeChunksThisCategory(target, ti, chunks, fresh, added, skipped) ==
  IF chunks = <<>>
    THEN [target |-> target, fresh |-> fresh, added |-> added, skipped |-> skipped,
          starved |-> FALSE]
  ELSE LET ch == Head(chunks)
           here == target.categories[ti].chunks
       IN IF \E k \in DOMAIN here : here[k].id = ch.id
            THEN MergeChunksThisCategory(target, ti, Tail(chunks), fresh, added, skipped + 1)
          ELSE IF fresh = <<>>
            THEN [target |-> target, fresh |-> fresh, added |-> added,
                  skipped |-> skipped, starved |-> TRUE]
          ELSE MergeChunksThisCategory(
                 [target EXCEPT !.categories[ti].chunks =
                                   Append(@, [ch EXCEPT !.uid = Head(fresh)])],
                 ti, Tail(chunks), Tail(fresh), added + 1, skipped)

RECURSIVE MergeChunksAtFront(_, _, _, _, _, _)
\* the inner loop putting each copy in front of the target category's chunks
MergeChunksAtFront(target, ti, chunks, fresh, added, skipped) ==
  IF chunks = <<>>
    THEN [target |-> target, fresh |-> fresh, added |-> added, skipped |-> skipped,
          starved |-> FALSE]
  ELSE LET ch == Head(chunks)
       IN IF IsIdTaken(target, ch.id, NoUid)
            THEN MergeChunksAtFront(target, ti, Tail(chunks), fresh, added, skipped + 1)
          ELSE IF fresh = <<>>
            THEN [target |-> target, fresh |-> fresh, added |-> added,
                  skipped |-> skipped, starved |-> TRUE]
          ELSE MergeChunksAtFront(
                 [target EXCEPT !.categories[ti].chunks =
                                   <<[ch EXCEPT !.uid = Head(fresh)]>> \o @],
                 ti, Tail(chunks), Tail(fresh), added + 1, skipped)

RECURSIVE MergeChunks(_, _, _, _, _, _)
\* the inner loop of mergeProjects over the chunks of one source category
MergeChunks(target, ti, chunks, fresh, added, skipped) ==
  IF chunks = <<>>
    THEN [target |-> target, fresh |-> fresh, added |-> added, skipped |-> skipped,
          starved |-> FALSE]
  ELSE LET ch == Head(chunks)
       IN IF IsIdTaken(target, ch.id, NoUid)
            THEN MergeChunks(target, ti, Tail(chunks), fresh, added, skipped + 1)
          ELSE IF fresh = <<>>
            THEN [target |-> target, fresh |-> fresh, added |-> added,
                  skipped |-> skipped, starved |-> TRUE]
          ELSE MergeChunks(
                 [target EXCEPT !.categories[ti].chunks =
                                   Append(@, [ch EXCEPT !.uid = Head(fresh)])],
                 ti, Tail(chunks), Tail(fresh), added + 1, skipped)

RECURSIVE MergeCategories(_, _, _, _, _, _, _)
\* the outer loop of mergeProjects over the source categories still to merge
MergeCategories(target, srcCats, freshCats, fresh, merged, added, skipped) ==
  IF srcCats = <<>>
    THEN Ok(target, [categoriesMerged |-> merged, chunksAdded |-> added,
                     chunksSkipped |-> skipped])
  ELSE LET srcCat == Head(srcCats)
           Match(c) == ToLowerCase(c.name) = ToLowerCase(srcCat.name)
           found == FindIndex(target.categories, Match)
           tgtCat == [id |-> Head(freshCats), name |-> srcCat.name,
                      expanded |-> JsTrue, chunks |-> <<>>]
           withCat == IF found = 0
                        THEN [target EXCEPT !.categories = Append(@, tgtCat)] ELSE target
           ti == IF found = 0 THEN Len(withCat.categories) ELSE found
           inner == MergeChunks(withCat, ti, srcCat.chunks, fresh, added, skipped)
       IN IF found = 0 /\ freshCats = <<>> THEN Starved
          ELSE IF inner.starved THEN Starved
          ELSE MergeCategories(inner.target, Tail(srcCats),
                               IF found = 0 THEN Tail(freshCats) ELSE freshCats,
                               inner.fresh,
                               IF found = 0 THEN merged + 1 ELSE merged,
                               inner.added, inner.skipped)

\* Store.mergeProjects, after the two _load calls
MergeProjectsOp(source, target, freshCats, fresh) ==
  MergeCategories(target, source.categories, freshCats, fresh, 0, 0, 0)

AllowedChars ==
  Range(UpperCase) \cup Range(LowerCase) \cup Range(DigitChars) \cup {"_", "-", ".", " "}

IsAllowedChar(c) == c \in AllowedChars

\* name.replace(/[^a-zA-Z0-9_\-. ]/g, '').trim()
SafeName(name) == Trim(SelectSeq(name, IsAllowedChar))

-----------------------------------------------------------------------------
(* The data directory.                                                     *)

\* Store._filePath (the directory prefix is the same for every file)
FilePath(name) == name \o <<".","j","s","o","n">>

\* Store._historyFilePath
HistoryFilePath(name) == name \o <<".","h","i","s","t","o","r","y",".","j","s","o","n">>

\* existsSync
ExistsSync(fs, fp) == fp \in DOMAIN fs

\* writeFileSync followed by a later JSON.parse(readFileSync)
WriteFile(fs, fp, content) ==
  [x \in (DOMAIN fs) \cup {fp} |-> IF x = fp THEN content ELSE fs[x]]

\* unlinkSync
Unlink(fs, fp) == [x \in (DOMAIN fs) \ {fp} |-> fs[x]]

\* Store._save
Save(fs, name, data) == WriteFile(fs, FilePath(name), data)

\* Store._loadHistory
LoadHistory(fs, name) ==
  IF ExistsSync(fs, HistoryFilePath(name)) THEN fs[HistoryFilePath(name)]
  ELSE [project |-> name, commits |-> <<>>]

\* the entry _commit puts in front of history.commits
NewCommit(data, commitId, action, source) ==
  [id |-> commitId,
   source |-> Or(source, <<"m","c","p">>),
   action |-> action,
   stats |-> [categories |-> Len(data.categories), chunks |-> TotalChunks(data)],
   snapshot |-> data]

\* unshift without the truncation to MAX_HISTORY
UnshiftUncapped(commits, c) == <<c>> \o commits

\* history.commits.unshift(c); if (length > MAX_HISTORY) length = MAX_HISTORY
Unshift(commits, c) ==
  LET all == <<c>> \o commits
  IN IF Len(all) > MAX_HISTORY THEN SubSeq(all, 1, MAX_HISTORY) ELSE all

\* whether _commit gets past its _load
CommitRecords(fs, projectName) == ExistsSync(fs, FilePath(projectName))

\* Store._commit: the data directory it leaves (unchanged when its try fails)
CommitFiles(fs, projectName, commitId, action, source) ==
  IF ~CommitRecords(fs, projectName) THEN fs
  ELSE LET data == fs[FilePath(projectName)]
           history == LoadHistory(fs, projectName)
       IN WriteFile(fs, HistoryFilePath(projectName),
                    [history EXCEPT !.commits = Unshift(@, NewCommit(data, commitId, action, source))])

IsProjectDoc(doc) == "categories" \in DOMAIN doc

UidsOf(data) == {ch.uid : ch \in Range(AllChunks(data))}

CatIdsOf(data) == {data.categories[ci].id : ci \in DOMAIN data.categories}

\* the project documents held anywhere in the data directory: live ones and snapshots
DocsOf(fs) ==
  UNION {IF IsProjectDoc(fs[fp]) THEN {fs[fp]}
         ELSE {fs[fp].commits[i].snapshot : i \in DOMAIN fs[fp].commits} : fp \in DOMAIN fs}

RECURSIVE SortedSeq(_)
SortedSeq(S) ==
  IF S = {} THEN <<>>
  ELSE LET m == CHOOSE x \in S : \A y \in S : x <= y IN <<m>> \o SortedSeq(S \ {m})

\* randomUUID(): the values, in the order taken, that occur nowhere in the data
\* directory (a uuid never equals one in use)
FreshUids == SortedSeq((1..MaxUid) \ UNION {UidsOf(d) : d \in DocsOf(files)})

FreshCatIds == SortedSeq((1..MaxCatId) \ UNION {CatIdsOf(d) : d \in DocsOf(files)})

-----------------------------------------------------------------------------
(* State.  files: the data directory.  ret: the last store call, its       *)
(* arguments and what it returned or threw.  recorded: the commits written *)
(* so far, oldest first, as [project, id, action]; a commit's id is its place *)
(* in this order (commit ids are uuids: what matters is that they differ).  *)
(* calls: the number of store calls made.                                  *)

Return(op, args, val) == [op |-> op, args |-> args, err |-> "none", val |-> val]

Throw(op, args, kind) == [op |-> op, args |-> args, err |-> kind, val |-> Undefined]

\* null of the session variables
Null == 0

\* null in a variable that otherwise holds a string
JsNull == <<"null">>

Handlers == 1..MaxInflight

SocketIds == 1..MaxSockets

Idle == [pc |-> "idle"]

NotRouted == [tool |-> "none", route |-> "none", seq |-> 0, seen |-> <<>>]

Init ==
  /\ files = <<>>
  /\ ret = Return("new Store", <<>>, Undefined)
  /\ recorded = <<>>
  /\ calls = 0
  /\ sessionWs = Null
  /\ sessionBase = JsNull
  /\ sessionCode = JsNull
  /\ sockets = [s \in SocketIds |-> [readyState |-> "NONE", onClose |-> FALSE]]
  /\ inflight = [h \in Handlers |-> Idle]
  /\ routed = [h \in Handlers |-> NotRouted]

FirstOr0(s) == IF s = <<>> THEN 0 ELSE Head(s)

\* r, the result of a call that takes one uuid on success, when `fresh` are the
\* uuids the model has left
Minting(r, fresh) == IF r.err = "none" /\ fresh = <<>> THEN Starved ELSE r

\* a call that loads one project, changes the loaded document and saves it:
\* r is what the code after _load gives
LoadMutateSave(op, args, projectName, r) ==
  /\ IF ~ExistsSync(files, FilePath(projectName))
       THEN /\ files' = files
            /\ ret' = Throw(op, args, "NotFound")
       ELSE /\ ~r.starved
            /\ files' = IF r.err = "none" THEN Save(files, projectName, r.data) ELSE files
            /\ ret' = IF r.err = "none" THEN Return(op, args, r.val) ELSE Throw(op, args, r.err)
  /\ UNCHANGED recorded

\* createProject writing the new document before it looks for an existing one
CreateProjectSaveFirst(name) ==
  LET safeName == SafeName(name)
      args == [name |-> name]
      project == [name |-> safeName, categories |-> <<>>]
  IN /\ IF safeName = <<>> THEN files' = files /\ ret' = Throw("createProject", args, "InvalidName")
        ELSE IF ExistsSync(files, FilePath(safeName))
          THEN files' = Save(files, safeName, project)
               /\ ret' = Throw("createProject", args, "AlreadyExists")
        ELSE files' = Save(files, safeName, project) /\ ret' = Return("createProject", args, project)
     /\ UNCHANGED recorded

\* createProject saving under the name as given
CreateProjectRawName(name) ==
  LET safeName == SafeName(name)
      args == [name |-> name]
      project == [name |-> safeName, categories |-> <<>>]
  IN /\ IF safeName = <<>> THEN files' = files /\ ret' = Throw("createProject", args, "InvalidName")
        ELSE IF ExistsSync(files, FilePath(safeName))
          THEN files' = files /\ ret' = Throw("createProject", args, "AlreadyExists")
        ELSE files' = Save(files, name, project) /\ ret' = Return("createProject", args, project)
     /\ UNCHANGED recorded

\* Store.createProject
CreateProject(name) ==
  LET safeName == SafeName(name)
      args == [name |-> name]
      project == [name |-> safeName, categories |-> <<>>]
  IN /\ IF safeName = <<>> THEN files' = files /\ ret' = Throw("createProject", args, "InvalidName")
        ELSE IF ExistsSync(files, FilePath(safeName))
          THEN files' = files /\ ret' = Throw("createProject", args, "AlreadyExists")
        ELSE files' = Save(files, safeName, project) /\ ret' = Return("createProject", args, project)
     /\ UNCHANGED recorded

\* Store.deleteProject
DeleteProject(name) ==
  LET args == [name |-> name]
  IN /\ IF ~ExistsSync(files, FilePath(name))
          THEN files' = files /\ ret' = Throw("deleteProject", args, "NotFound")
          ELSE /\ files' = Unlink(files, FilePath(name))
               /\ ret' = Return("deleteProject", args, [deleted |-> name])
     /\ UNCHANGED recorded

\* Store.createCategory
CreateCategory(projectName, categoryName) ==
  LoadMutateSave("createCategory", [project |-> projectName, name |-> categoryName],
                 projectName,
                 Minting(CreateCategoryOp(files[FilePath(projectName)], categoryName,
                                          FirstOr0(FreshCatIds)),
                         FreshCatIds))

\* Store.renameCategory
RenameCategory(projectName, oldName, newName) ==
  LoadMutateSave("renameCategory",
                 [project |-> projectName, old_name |-> oldName, new_name |-> newName],
                 projectName,
                 RenameCategoryOp(files[FilePath(projectName)], oldName, newName))

\* Store.deleteCategory
DeleteCategory(projectName, categoryName) ==
  LoadMutateSave("deleteCategory", [project |-> projectName, name |-> categoryName],
                 projectName,
                 DeleteCategoryOp(files[FilePath(projectName)], categoryName))

\* Store.addChunk
AddChunk(projectName, categoryName, chunk) ==
  LoadMutateSave("addChunk",
                 [project |-> projectName, category |-> categoryName, chunk |-> chunk],
                 projectName,
                 Minting(AddChunkOp(files[FilePath(projectName)], categoryName, chunk,
                                    FirstOr0(FreshUids)),
                         FreshUids))

\* Store.bulkAddChunks
BulkAddChunks(projectName, categoryName, chunks) ==
  LoadMutateSave("bulkAddChunks",
                 [project |-> projectName, category |-> categoryName, chunks |-> chunks],
                 projectName,
                 BulkAddChunksOp(files[FilePath(projectName)], categoryName, chunks, FreshUids))

\* Store.updateChunk
UpdateChunk(projectName, chunkId, updates) ==
  LoadMutateSave("updateChunk",
                 [project |-> projectName, id |-> chunkId, updates |-> updates],
                 projectName,
                 UpdateChunkOp(files[FilePath(projectName)], chunkId, updates))

\* Store.deleteChunk
DeleteChunk(projectName, chunkId) ==
  LoadMutateSave("deleteChunk", [project |-> projectName, id |-> chunkId],
                 projectName,
                 DeleteChunkOp(files[FilePath(projectName)], chunkId))

\* Store.duplicateChunk
DuplicateChunk(projectName, chunkId) ==
  /\ Len(chunkId) + Len(CopySuffix) + 2 <= MaxIdLen
  /\     LoadMutateSave("duplicateChunk", [project |-> projectName, id |-> chunkId],
                 projectName,
                 Minting(DuplicateChunkOp(files[FilePath(projectName)], chunkId,
                                          FirstOr0(FreshUids)),
                         FreshUids))

\* Store.moveChunk
MoveChunk(projectName, chunkId, targetCategory) ==
  LoadMutateSave("moveChunk",
                 [project |-> projectName, id |-> chunkId, target_category |-> targetCategory],
                 projectName,
                 MoveChunkOp(files[FilePath(projectName)], chunkId, targetCategory))

\* Store.bulkUpdateMetadata
BulkUpdateMetadata(projectName, field, value, categoryName) ==
  LoadMutateSave("bulkUpdateMetadata",
                 [project |-> projectName, field |-> field, value |-> value,
                  category |-> categoryName],
                 projectName,
                 BulkUpdateMetadataOp(files[FilePath(projectName)], field, value, categoryName))

\* Store.importJSON; json is [isArray, entries]
ImportJSON(projectName, json, categoryName) ==
  LET args == [project |-> projectName, data |-> json, category |-> categoryName]
      exists == ExistsSync(files, FilePath(projectName))
      safeName == SafeName(projectName)
      created == [name |-> safeName, categories |-> <<>>]
      \* the data directory once `data` is in hand
      fs1 == IF exists THEN files ELSE Save(files, safeName, created)
      data == IF exists THEN files[FilePath(projectName)] ELSE created
      r == ImportIntoOp(data, json.entries, categoryName,
                        FirstOr0(FreshCatIds), FreshUids)
  IN /\ IF ~json.isArray
          THEN files' = files /\ ret' = Throw("importJSON", args, "InvalidInput")
        ELSE IF ~exists /\ safeName = <<>>
          THEN files' = files /\ ret' = Throw("importJSON", args, "InvalidName")
        ELSE IF ~exists /\ ExistsSync(files, FilePath(safeName))
          THEN files' = files /\ ret' = Throw("importJSON", args, "AlreadyExists")
        ELSE /\ ~r.starved
             /\ files' = Save(fs1, projectName, r.data)
             /\ ret' = Return("importJSON", args,
                              [project |-> projectName,
                               category |-> Or(categoryName, DefaultImportCategory),
                               imported |-> r.val.imported, skipped |-> r.val.skipped])
     /\ UNCHANGED recorded

\* Store.mergeProjects
MergeProjects(sourceName, targetName) ==
  LET args == [source |-> sourceName, target |-> targetName]
      r == MergeProjectsOp(files[FilePath(sourceName)], files[FilePath(targetName)],
                           FreshCatIds, FreshUids)
  IN /\ IF ~ExistsSync(files, FilePath(sourceName)) \/ ~ExistsSync(files, FilePath(targetName))
          THEN files' = files /\ ret' = Throw("mergeProjects", args, "NotFound")
          ELSE /\ ~r.starved
               /\ files' = Save(files, targetName, r.data)
               /\ ret' = Return("mergeProjects", args, r.val)
     /\ UNCHANGED recorded

\* the log of recorded commits after a _commit for projectName
Recorded(fs, projectName, action) ==
  IF CommitRecords(fs, projectName)
    THEN Append(recorded, [project |-> projectName, id |-> Len(recorded) + 1, action |-> action])
    ELSE recorded

\* Store._commit, called on its own by a history-aware caller; at most
\* `bound` commits are recorded in a run
CommitCall(projectName, action, source, bound) ==
  /\ Len(recorded) < bound
  /\ files' = CommitFiles(files, projectName, Len(recorded) + 1, action, source)
  /\ recorded' = Recorded(files, projectName, action)
  /\ ret' = Return("_commit", [project |-> projectName, action |-> action], Undefined)

\* rollback writing the snapshot back without recording a commit
RollbackCallNoCommit(name, commitId, source, bound) ==
  LET args == [project |-> name, commit_id |-> commitId]
      history == LoadHistory(files, name)
      HasId(c) == c.id = commitId
      i == FindIndex(history.commits, HasId)
      saved == Save(files, name, history.commits[i].snapshot)
  IN IF i = 0
       THEN files' = files /\ ret' = Throw("rollback", args, "NotFound") /\ UNCHANGED recorded
       ELSE /\ Len(recorded) < bound
            /\ files' = saved
            /\ UNCHANGED recorded
            /\ ret' = Return("rollback", args, saved[FilePath(name)])

\* Store.rollback
RollbackCall(name, commitId, source, bound) ==
  LET args == [project |-> name, commit_id |-> commitId]
      history == LoadHistory(files, name)
      HasId(c) == c.id = commitId
      i == FindIndex(history.commits, HasId)
      saved == Save(files, name, history.commits[i].snapshot)
      after == CommitFiles(saved, name, Len(recorded) + 1, "rollback", Or(source, <<"m","c","p">>))
  IN IF i = 0
       THEN files' = files /\ ret' = Throw("rollback", args, "NotFound") /\ UNCHANGED recorded
       ELSE /\ Len(recorded) < bound
            /\ files' = after
            /\ recorded' = Recorded(saved, name, "rollback")
            /\ ret' = Return("rollback", args, after[FilePath(name)])

Commit(projectName, action, source) == CommitCall(projectName, action, source, MaxCommits)

Rollback(name, commitId, source) == RollbackCall(name, commitId, source, MaxCommits)

-----------------------------------------------------------------------------
(* The calls of the model: the values each argument is drawn from.         *)

pP == <<"p">>
pQ == <<"q">>

ProjectNames == {pP, pQ}

\* names given to createProject: "!" sanitizes to the empty name
NewProjectNames == ProjectNames \cup {<<"!">>}

CategoryNames == {<<"M">>, <<"m">>, <<"N">>}

idA == <<"a">>
idB == <<"b">>
idSpaceA == <<" ", "a">>
idBlank == <<" ">>

\* the chunk argument the tool layer builds: { id, text, metadata }
ChunkArg(id, text, metadata) ==
  [id |-> id, text |-> text, page_title |-> Undefined, source |-> Undefined,
   license |-> Undefined, metadata |-> metadata]

chunkA == ChunkArg(idA, <<"t">>, NoMetadata)
chunkB == ChunkArg(idB, <<>>, <<[key |-> <<"k">>, value |-> <<"v">>]>>)
chunkSpaceA == ChunkArg(idSpaceA, <<"t">>, NoMetadata)
chunkBlank == ChunkArg(idBlank, <<"t">>, NoMetadata)

ChunkArgs == {chunkA, chunkB, chunkSpaceA, chunkBlank}

Batches == {<<chunkA, chunkB>>, <<chunkB, chunkSpaceA, chunkBlank, chunkA>>}

JsonInputs == {[isArray |-> TRUE, entries |-> b] : b \in Batches}
                \cup {[isArray |-> FALSE, entries |-> <<>>]}

UpdateArgs ==
  { [NoUpdates EXCEPT !.newId = idSpaceA],
    [NoUpdates EXCEPT !.newId = idBlank],
    [NoUpdates EXCEPT !.text = <<"u">>, !.license = <<>>],
    [NoUpdates EXCEPT !.metadata = <<[key |-> <<"j">>, value |-> <<"w">>]>>],
    [NoUpdates EXCEPT !.metadata = <<[key |-> kSource, value |-> <<"s">>]>>] }

\* the ids a chunk is looked up by: those in the project, and one in none
IdsIn(projectName) ==
  IF ExistsSync(files, FilePath(projectName))
    THEN {ch.id : ch \in Range(AllChunks(files[FilePath(projectName)]))}
    ELSE {}

LookupIds(projectName) == IdsIn(projectName) \cup {<<"z">>}

FieldValues == {<<kLicense, <<>>>>, <<<<"k">>, <<"w">>>>}

\* the commit ids a rollback is asked for: every id given out, and one never given out
CommitIds(bound) == 1..(bound + 1)

\* the bound on a run of the store: up to MaxCalls calls, of which only the last
\* may throw (a call that throws leaves the data directory as it was, so the
\* calls that can follow it are those that can follow the state before it)
InRun ==
  /\ calls < MaxCalls
  /\ ret.err = "none"
  /\ calls' = calls + 1
  /\ UNCHANGED server

Next ==
  \/ \E n \in NewProjectNames : InRun /\ CreateProject(n)
  \/ \E p \in ProjectNames : InRun /\ DeleteProject(p)
  \/ \E p \in ProjectNames, c \in CategoryNames \cup {idBlank} : InRun /\ CreateCategory(p, c)
  \/ \E p \in ProjectNames, c \in CategoryNames, d \in CategoryNames \cup {idBlank} :
       InRun /\ RenameCategory(p, c, d)
  \/ \E p \in ProjectNames, c \in CategoryNames : InRun /\ DeleteCategory(p, c)
  \/ \E p \in ProjectNames, c \in CategoryNames, ch \in ChunkArgs : InRun /\ AddChunk(p, c, ch)
  \/ \E p \in ProjectNames, c \in CategoryNames, b \in Batches : InRun /\ BulkAddChunks(p, c, b)
  \/ \E p \in ProjectNames : \E id \in LookupIds(p), u \in UpdateArgs : InRun /\ UpdateChunk(p, id, u)
  \/ \E p \in ProjectNames : \E id \in LookupIds(p) : InRun /\ DeleteChunk(p, id)
  \/ \E p \in ProjectNames : \E id \in LookupIds(p) : InRun /\ DuplicateChunk(p, id)
  \/ \E p \in ProjectNames : \E id \in LookupIds(p), c \in CategoryNames : InRun /\ MoveChunk(p, id, c)
  \/ \E p \in ProjectNames, j \in JsonInputs, c \in {Undefined, <<"M">>} : InRun /\ ImportJSON(p, j, c)
  \/ \E p \in ProjectNames, fv \in FieldValues, c \in {Undefined, <<"M">>, <<"N">>} :
       InRun /\ BulkUpdateMetadata(p, fv[1], fv[2], c)
  \/ \E s \in ProjectNames, t \in ProjectNames : InRun /\ MergeProjects(s, t)
  \/ \E p \in ProjectNames : InRun /\ Commit(p, "edit", <<"b","r","o","w","s","e","r">>)
  \/ \E p \in ProjectNames, c \in CommitIds(MaxCommits) : InRun /\ Rollback(p, c, <<"m","c","p">>)

Spec == Init /\ [][Next]_vars

-----------------------------------------------------------------------------
(* The history ledger on its own: one project, created, deleted, committed *)
(* to and rolled back until MaxRecorded commits were recorded.             *)

InLedgerRun ==
  /\ ret.err = "none"
  /\ UNCHANGED calls
  /\ UNCHANGED server

RollbacksRecorded == Cardinality({i \in DOMAIN recorded : recorded[i].action = "rollback"})

\* the commit ids a rollback of the ledger model is asked for: the newest and the
\* oldest commit of the history, and an id that was never given out
LedgerCommitIds ==
  LET commits == LoadHistory(files, pP).commits
  IN (IF commits = <<>> THEN {} ELSE {commits[1].id, commits[Len(commits)].id})
       \cup {MaxRecorded + 1}

NextHist ==
  \/ InLedgerRun /\ CreateProject(pP)
  \/ InLedgerRun /\ DeleteProject(pP)
  \/ InLedgerRun /\ CommitCall(pP, "edit", <<"b","r","o","w","s","e","r">>, MaxRecorded)
  \/ \E c \in LedgerCommitIds :
       /\ InLedgerRun
       /\ RollbacksRecorded < MaxHistRollbacks
       /\ RollbackCall(pP, c, <<"m","c","p">>, MaxRecorded)

SpecHist == Init /\ [][NextHist]_vars

-----------------------------------------------------------------------------
(* Properties.                                                             *)

Exists(p) == ExistsSync(files, FilePath(p))

\* the persisted document of project p
Doc(p) == files[FilePath(p)]

\* what getHistory(p) lists, with the snapshots
History(p) == LoadHistory(files, p).commits

HistoryAfter(p) == LoadHistory(files', p).commits

Succeeded(op) == ret.op = op /\ ret.err = "none"

\* the project a call of the last kind wrote to
Written ==
  IF ret.op = "mergeProjects" THEN ret.args.target
  ELSE IF ret.op \in {"createProject", "deleteProject"} THEN ret.args.name
  ELSE ret.args.project

DistinctAt(s, F(_)) == \A i, j \in DOMAIN s : i # j => F(s[i]) # F(s[j])

ChunkIdOf(ch) == ch.id

ChunkUidOf(ch) == ch.uid

LowerNameOf(c) == ToLowerCase(c.name)

\* C1: in every reachable state no two chunks of a project, in the same or in
\* different categories, have the same id.
C1_ChunkIdsUnique ==
  \A p \in ProjectNames : Exists(p) => DistinctAt(AllChunks(Doc(p)), ChunkIdOf)

\* C2: in every reachable state no two categories of a project have names that
\* are equal when compared case-insensitively.
C2_CategoryNamesUnique ==
  \A p \in ProjectNames : Exists(p) => DistinctAt(Doc(p).categories, LowerNameOf)

\* a rename, or a merge that made a category, left a project with two categories
C2_Witness ==
  /\ \/ Succeeded("renameCategory")
     \/ Succeeded("mergeProjects") /\ ret.val.categoriesMerged > 0
  /\ Len(Doc(Written).categories) >= 2

\* C3: every chunk of a project is in exactly one category: after every step no
\* _uid occurs twice in a project, a move keeps exactly the chunks there were, and
\* a duplicate or a merge keeps every chunk there was.
C3_OneCategoryPerChunk ==
  [][ /\ \A p \in ProjectNames :
           ExistsSync(files', FilePath(p)) => DistinctAt(AllChunks(files'[FilePath(p)]), ChunkUidOf)
      /\ ret'.op = "moveChunk" /\ ret'.err = "none"
           => UidsOf(files'[FilePath(ret'.args.project)]) = UidsOf(Doc(ret'.args.project))
      /\ ret'.op = "duplicateChunk" /\ ret'.err = "none"
           => UidsOf(Doc(ret'.args.project)) \subseteq UidsOf(files'[FilePath(ret'.args.project)])
      /\ ret'.op = "mergeProjects" /\ ret'.err = "none"
           => UidsOf(Doc(ret'.args.target)) \subseteq UidsOf(files'[FilePath(ret'.args.target)])
    ]_vars

\* a chunk was moved into a category that already held a chunk
C3_Witness ==
  /\ Succeeded("moveChunk")
  /\ \E ci \in DOMAIN Doc(Written).categories : Len(Doc(Written).categories[ci].chunks) >= 2

\* the ids of the commits recorded for project p, oldest first
RecordedFor(p) ==
  LET Mine(r) == r.project = p
      mine == SelectSeq(recorded, Mine)
  IN [i \in DOMAIN mine |-> mine[i].id]

\* C4: a project's history holds at most 50 commits, newest first: the 50 most
\* recently recorded ones (all of them while no more than 50 were recorded), in
\* reverse order of recording.
C4_HistoryCap ==
  \A p \in ProjectNames :
    LET rec == RecordedFor(p)
        h == History(p)
    IN /\ Len(h) = Min(Len(rec), MAX_HISTORY)
       /\ \A i \in DOMAIN h : h[i].id = rec[Len(rec) - i + 1]

\* sixty commits were recorded for one project, a rollback among them
C4_Witness ==
  /\ Len(RecordedFor(pP)) = 60
  /\ RollbacksRecorded = 1

\* the calls of the local tool handler that change a project
ProjectMutators ==
  {"createCategory", "renameCategory", "deleteCategory", "addChunk", "bulkAddChunks",
   "updateChunk", "deleteChunk", "duplicateChunk", "moveChunk", "importJSON",
   "bulkUpdateMetadata", "mergeProjects"}

\* C5: after every successful mutating operation of the local mode the project's
\* history has a newest commit whose snapshot is the persisted project document.
C5_MutationsRecorded ==
  ret.op \in ProjectMutators /\ ret.err = "none"
    => /\ History(Written) # <<>>
       /\ History(Written)[1].snapshot = Doc(Written)

\* C6: rollback(p, c) with c in p's history makes c's snapshot the project
\* document, returns it, and puts in front of the history as it was a new commit
\* of action "rollback" with that snapshot; with c not in the history it fails
\* with NotFound and leaves every document as it was.
C6_Rollback ==
  [][ ret'.op = "rollback" =>
        LET p == ret'.args.project
            InHistory(c) == c.id = ret'.args.commit_id
            i == FindIndex(History(p), InHistory)
            snapshot == History(p)[i].snapshot
            h == HistoryAfter(p)
        IN IF ret'.err = "none"
             THEN /\ i # 0
                  /\ files'[FilePath(p)] = snapshot
                  /\ ret'.val = snapshot
                  /\ h[1].action = "rollback"
                  /\ h[1].snapshot = snapshot
                  /\ \A k \in DOMAIN History(p) : h[1].id # History(p)[k].id
                  /\ Tail(h) = SubSeq(History(p), 1, Min(Len(History(p)), MAX_HISTORY - 1))
             ELSE /\ i = 0
                  /\ ret'.err = "NotFound"
                  /\ files' = files
    ]_vars

\* a rollback brought back a project that has a category
C6_Witness ==
  /\ Succeeded("rollback")
  /\ ret.val.categories # <<>>
  /\ Doc(Written) = ret.val

\* C7: after a successful rollback of an existing project the history still
\* holds a commit whose snapshot is the document the project had just before.
C7_RollbackUndoable ==
  [][ ret'.op = "rollback" /\ ret'.err = "none" /\ Exists(ret'.args.project) =>
        \E k \in DOMAIN HistoryAfter(ret'.args.project) :
          HistoryAfter(ret'.args.project)[k].snapshot = Doc(ret'.args.project)
    ]_vars

\* C8: a rollback to the newest commit of the history leaves exportProject's
\* result as it was.
C8_RollbackToLatestKeepsExport ==
  [][ /\ ret'.op = "rollback" /\ ret'.err = "none"
      /\ Exists(ret'.args.project)
      /\ History(ret'.args.project)[1].id = ret'.args.commit_id
      => ExportProjectOp(files'[FilePath(ret'.args.project)]) = ExportProjectOp(Doc(ret'.args.project))
    ]_vars

\* the project importJSON(name, exported) makes when no project has that name
ImportedFresh(name, exported) ==
  ImportIntoOp([name |-> SafeName(name), categories |-> <<>>], exported, Undefined,
               1, [i \in 1..Len(exported) |-> i]).data

\* the {id, text, metadata} records of an export, each metadata object as the
\* set of its entries
RecordSet(exported) ==
  {[id |-> exported[i].id, text |-> exported[i].text, metadata |-> Range(exported[i].metadata)] :
     i \in DOMAIN exported}

\* C9: exporting a project, importing the export into a project that does not
\* exist yet and exporting that project gives the same set of records.
C9_ExportImportRoundTrip ==
  \A p \in ProjectNames :
    Exists(p) =>
      RecordSet(ExportProjectOp(ImportedFresh(<<"r">>, ExportProjectOp(Doc(p)))))
        = RecordSet(ExportProjectOp(Doc(p)))

SingleEntityMutators ==
  {"createProject", "deleteProject", "createCategory", "renameCategory", "deleteCategory",
   "addChunk", "updateChunk", "deleteChunk", "duplicateChunk", "moveChunk",
   "bulkUpdateMetadata", "mergeProjects", "rollback"}

\* C10: a single-entity mutator that returns an error leaves every project
\* document and every history document as it was.
C10_FailedCallChangesNothing ==
  [][ ret'.op \in SingleEntityMutators /\ ret'.err # "none" => files' = files ]_vars

\* a call failed on a project that holds chunks and has a history
C10_Witness ==
  /\ ret.op \in SingleEntityMutators
  /\ ret.err \in {"DuplicateChunkId", "AlreadyInCategory", "DuplicateCategory", "AlreadyExists"}
  /\ Exists(Written)
  /\ AllChunks(Doc(Written)) # <<>>
  /\ History(Written) # <<>>

IdsOf(data) == {ch.id : ch \in Range(AllChunks(data))}

\* the project document after the step
DocAfter(p) == files'[FilePath(p)]

\* the step is a successful call of op
Succeeds(op) == ret'.op = op /\ ret'.err = "none"

\* the step is a call of op that throws kind
Throws(op, kind) == ret'.op = op /\ ret'.err = kind

\* C11: bulkAddChunks adds an entry iff its trimmed id is non-empty and is the id
\* of no chunk of the project nor of an earlier entry of the batch; added + errors
\* is the batch length; the added entries, and nothing else, are appended to the
\* named category in batch order and every other category is as it was.
C11_BulkAddChunks ==
  [][ Succeeds("bulkAddChunks") =>
        LET p == ret'.args.project
            chunks == ret'.args.chunks
            id == [i \in DOMAIN chunks |-> Trim(Or(chunks[i].id, <<>>))]
            Accepted(i) == /\ id[i] # <<>>
                           /\ id[i] \notin IdsOf(Doc(p))
                           /\ \A j \in 1..(i - 1) : id[j] # id[i]
            accepted == SelectSeq([i \in DOMAIN chunks |-> i], Accepted)
            ci == FindCategory(Doc(p), ret'.args.category)
            before == Doc(p).categories[ci].chunks
            after == DocAfter(p).categories[ci].chunks
        IN /\ ret'.val.added = Len(accepted)
           /\ ret'.val.added + ret'.val.errors = Len(chunks)
           /\ Len(after) = Len(before) + Len(accepted)
           /\ SubSeq(after, 1, Len(before)) = before
           /\ \A k \in DOMAIN accepted :
                /\ after[Len(before) + k].id = id[accepted[k]]
                /\ after[Len(before) + k].text = Or(chunks[accepted[k]].text, <<>>)
           /\ DocAfter(p) = [Doc(p) EXCEPT !.categories[ci].chunks = after]
    ]_vars

\* a batch with a valid entry and, after it, an entry with the same id: one is
\* added, the other reported, in a category that held a chunk
C11_Witness ==
  /\ Succeeded("bulkAddChunks")
  /\ ret.val.added >= 1
  /\ ret.val.errors >= 2
  /\ Len(AllChunks(Doc(Written))) > ret.val.added

\* every file but the document of project p is as it was
OnlyDocChanged(p) ==
  /\ DOMAIN files' = DOMAIN files
  /\ \A fp \in DOMAIN files : fp # FilePath(p) => files'[fp] = files[fp]

\* C12: addChunk fails with NotFound when the project or the category is absent,
\* with EmptyId when the trimmed id is empty and with DuplicateChunkId when some
\* chunk of the project has the trimmed id, and then changes nothing; in every
\* other case it appends one chunk with the trimmed id to the named category and
\* leaves the rest of the project as it was.
C12_AddChunk ==
  [][ ret'.op = "addChunk" =>
        LET p == ret'.args.project
            id == Trim(Or(ret'.args.chunk.id, <<>>))
            ci == FindCategory(Doc(p), ret'.args.category)
            absent == IF Exists(p) THEN ci = 0 ELSE TRUE
            taken == IF Exists(p) THEN id \in IdsOf(Doc(p)) ELSE FALSE
            reasons == (IF absent THEN {"NotFound"} ELSE {})
                         \cup (IF id = <<>> THEN {"EmptyId"} ELSE {})
                         \cup (IF taken THEN {"DuplicateChunkId"} ELSE {})
            before == Doc(p).categories[ci].chunks
            after == DocAfter(p).categories[ci].chunks
        IN IF reasons # {}
             THEN ret'.err \in reasons /\ files' = files
             ELSE /\ ret'.err = "none"
                  /\ Len(after) = Len(before) + 1
                  /\ SubSeq(after, 1, Len(before)) = before
                  /\ after[Len(after)].id = id
                  /\ DocAfter(p) = [Doc(p) EXCEPT !.categories[ci].chunks = after]
                  /\ OnlyDocChanged(p)
    ]_vars

\* addChunk was refused for an id held by a chunk of another category
C12_Witness ==
  /\ ret.op = "addChunk" /\ ret.err = "DuplicateChunkId"
  /\ LET ci == FindCategory(Doc(Written), ret.args.category)
     IN \A k \in DOMAIN Doc(Written).categories[ci].chunks :
          Doc(Written).categories[ci].chunks[k].id # Trim(ret.args.chunk.id)

\* C13: updateChunk asked for a new id other than the chunk's current id fails
\* with DuplicateChunkId and changes nothing whenever a chunk with another _uid
\* already has the id that would be stored; every other rename succeeds and
\* keeps the chunk's _uid and category.
C13_UpdateChunkRename ==
  [][ /\ ret'.op = "updateChunk"
      /\ Exists(ret'.args.project)
      /\ LocateChunk(Doc(ret'.args.project), ret'.args.id).ci # 0
      /\ Truthy(ret'.args.updates.newId)
      =>
        LET p == ret'.args.project
            newId == ret'.args.updates.newId
            at == LocateChunk(Doc(p), ret'.args.id)
            ch == Doc(p).categories[at.ci].chunks[at.ki]
            stored == Trim(newId)
            held == \E o \in Range(AllChunks(Doc(p))) : o.uid # ch.uid /\ o.id = stored
            now == DocAfter(p).categories[at.ci].chunks[at.ki]
        IN IF newId # ret'.args.id /\ held
             THEN ret'.err = "DuplicateChunkId" /\ files' = files
             ELSE /\ ret'.err = "none"
                  /\ now.uid = ch.uid
                  /\ now.id = IF newId # ret'.args.id THEN stored ELSE ch.id
    ]_vars

\* C14: after updateChunk with a custom-metadata object the chunk's custom
\* fields are exactly the non-standard keys of that object, in order, also when
\* the object has no non-standard key.
C14_UpdateChunkReplacesCustomFields ==
  [][ Succeeds("updateChunk") /\ ret'.args.updates.metadata # NoMetadata =>
        LET p == ret'.args.project
            at == LocateChunk(Doc(p), ret'.args.id)
            given == SelectSeq(ret'.args.updates.metadata, NotStandardEntry)
            now == DocAfter(p).categories[at.ci].chunks[at.ki].customFields
        IN /\ Len(now) = Len(given)
           /\ \A i \in DOMAIN given : now[i].key = given[i].key /\ now[i].value = given[i].value
    ]_vars

\* the n-th id of the sequence id_copy, id_copy_1, id_copy_2, ...
CopyCandidate(id, n) ==
  IF n = 0 THEN id \o <<"_","c","o","p","y">>
  ELSE id \o <<"_","c","o","p","y","_">> \o NatToStr(n)

\* C15: duplicateChunk on an existing chunk appends to the original's category
\* one chunk with a fresh _uid, the original's text, metadata and custom fields
\* and the first id of id_copy, id_copy_1, ... that no chunk has, and changes
\* nothing else; it fails with NotFound when no chunk has the id.
C15_DuplicateChunk ==
  [][ ret'.op = "duplicateChunk" =>
        LET p == ret'.args.project
            id == ret'.args.id
            at == LocateChunk(Doc(p), id)
            ch == Doc(p).categories[at.ci].chunks[at.ki]
            before == Doc(p).categories[at.ci].chunks
            clone == DocAfter(p).categories[at.ci].chunks[Len(before) + 1]
            found == IF Exists(p) THEN at.ci # 0 ELSE FALSE
        IN IF ~found
             THEN ret'.err = "NotFound" /\ files' = files
             ELSE /\ ret'.err = "none"
                  /\ DocAfter(p) = [Doc(p) EXCEPT !.categories[at.ci].chunks = Append(before, clone)]
                  /\ OnlyDocChanged(p)
                  /\ clone.uid \notin UidsOf(Doc(p))
                  /\ clone.text = ch.text
                  /\ clone.metadata = ch.metadata
                  /\ clone.customFields = ch.customFields
                  /\ ret'.val.duplicate = clone.id
                  /\ \E n \in 0..Len(AllChunks(Doc(p))) :
                       /\ clone.id = CopyCandidate(id, n)
                       /\ clone.id \notin IdsOf(Doc(p))
                       /\ \A m \in 0..(n - 1) : CopyCandidate(id, m) \in IdsOf(Doc(p))
    ]_vars

\* a chunk whose _copy id was taken was duplicated as _copy_1
C15_Witness ==
  /\ Succeeded("duplicateChunk")
  /\ ret.val.duplicate = CopyCandidate(ret.args.id, 1)
  /\ CopyCandidate(ret.args.id, 0) \in IdsOf(Doc(Written))

\* C16: moveChunk fails with NotFound when the chunk or the target category is
\* absent and with AlreadyInCategory when the chunk's category is the target,
\* changing nothing; otherwise the chunk leaves its category and is appended to
\* the target as it was, and everything else, the order of the other chunks
\* included, stays.
C16_MoveChunk ==
  [][ ret'.op = "moveChunk" =>
        LET p == ret'.args.project
            ti == FindCategory(Doc(p), ret'.args.target_category)
            at == LocateChunk(Doc(p), ret'.args.id)
            chunk == Doc(p).categories[at.ci].chunks[at.ki]
            absent == IF Exists(p) THEN ti = 0 \/ at.ci = 0 ELSE TRUE
        IN IF absent
             THEN ret'.err = "NotFound" /\ files' = files
           ELSE IF Doc(p).categories[at.ci].id = Doc(p).categories[ti].id
             THEN ret'.err = "AlreadyInCategory" /\ files' = files
           ELSE /\ ret'.err = "none"
                /\ OnlyDocChanged(p)
                /\ DocAfter(p) =
                     [Doc(p) EXCEPT !.categories[at.ci].chunks = RemoveAt(@, at.ki),
                                    !.categories[ti].chunks = Append(@, chunk)]
    ]_vars

\* a move was refused for the chunk's own category, named in another letter case
C16_Witness ==
  /\ ret.op = "moveChunk" /\ ret.err = "AlreadyInCategory"
  /\ LET ti == FindCategory(Doc(Written), ret.args.target_category)
     IN Doc(Written).categories[ti].name # ret.args.target_category

-----------------------------------------------------------------------------
(* Longer runs on one project: an import into category M, a second         *)
(* category, renames of chunks, moves and the deletion of a category.      *)

InDeepRun ==
  /\ calls < MaxDeepCalls
  /\ ret.err = "none"
  /\ calls' = calls + 1
  /\ UNCHANGED server

NextDeep ==
  \/ InDeepRun /\ ImportJSON(pP, [isArray |-> TRUE, entries |-> <<chunkA, chunkB>>], <<"M">>)
  \/ InDeepRun /\ CreateCategory(pP, <<"N">>)
  \/ \E id \in LookupIds(pP) : InDeepRun /\ UpdateChunk(pP, id, [NoUpdates EXCEPT !.newId = idSpaceA])
  \/ \E id \in LookupIds(pP), c \in {<<"M">>, <<"N">>} : InDeepRun /\ MoveChunk(pP, id, c)
  \/ \E c \in {<<"m">>, <<"N">>} : InDeepRun /\ DeleteCategory(pP, c)

SpecDeep == Init /\ [][NextDeep]_vars

\* C17: deleteCategory removes the category whose name matches case-insensitively
\* with all its chunks in one write, so that none of their ids is found in the
\* project afterwards, and leaves the other categories, their chunks and their
\* order as they were; it fails with NotFound when no category matches.
C17_DeleteCategory ==
  [][ ret'.op = "deleteCategory" =>
        LET p == ret'.args.project
            idx == FindCategory(Doc(p), ret'.args.name)
            absent == IF Exists(p) THEN idx = 0 ELSE TRUE
            removed == Doc(p).categories[idx].chunks
        IN IF absent
             THEN ret'.err = "NotFound" /\ files' = files
             ELSE /\ ret'.err = "none"
                  /\ OnlyDocChanged(p)
                  /\ DocAfter(p) = [Doc(p) EXCEPT !.categories = RemoveAt(@, idx)]
                  /\ \A k \in DOMAIN removed : removed[k].id \notin IdsOf(DocAfter(p))
    ]_vars

\* C18: renameCategory of an existing category fails with DuplicateCategory iff
\* a category of another identity has the trimmed new name case-insensitively
\* and with EmptyName if the trimmed new name is empty, changing nothing; in
\* every other case, a rename to its own name in any letter case included, it
\* succeeds and changes the category's name and nothing else.
C18_RenameCategory ==
  [][ /\ ret'.op = "renameCategory"
      /\ Exists(ret'.args.project)
      /\ FindCategory(Doc(ret'.args.project), ret'.args.old_name) # 0
      =>
        LET p == ret'.args.project
            cats == Doc(p).categories
            ci == FindCategory(Doc(p), ret'.args.old_name)
            trimmed == Trim(ret'.args.new_name)
            held == \E i \in DOMAIN cats :
                      /\ cats[i].id # cats[ci].id
                      /\ ToLowerCase(cats[i].name) = ToLowerCase(trimmed)
        IN /\ ret'.err = "DuplicateCategory" <=> held
           /\ trimmed = <<>> => ret'.err = "EmptyName"
           /\ ret'.err # "none" => files' = files
           /\ ~held /\ trimmed # <<>> =>
                /\ ret'.err = "none"
                /\ OnlyDocChanged(p)
                /\ DocAfter(p) = [Doc(p) EXCEPT !.categories[ci].name = trimmed]
    ]_vars

\* a category was renamed to its own name in another letter case
C18_Witness ==
  /\ Succeeded("renameCategory")
  /\ ret.args.old_name # ret.args.new_name
  /\ ToLowerCase(ret.args.old_name) = ToLowerCase(ret.args.new_name)

\* C19: a successful mergeProjects leaves the source document as it was, also
\* when the source is the target, and in the target keeps every category there
\* was in its place with its identity and name, and every chunk there was in
\* its place and unchanged.
C19_MergeKeeps ==
  [][ Succeeds("mergeProjects") =>
        LET src == ret'.args.source
            tgt == ret'.args.target
            old == Doc(tgt).categories
            new == DocAfter(tgt).categories
        IN /\ DocAfter(src) = Doc(src)
           /\ OnlyDocChanged(tgt)
           /\ DocAfter(tgt).name = Doc(tgt).name
           /\ Len(new) >= Len(old)
           /\ \A i \in DOMAIN old :
                /\ new[i].id = old[i].id
                /\ new[i].name = old[i].name
                /\ new[i].expanded = old[i].expanded
                /\ Len(new[i].chunks) >= Len(old[i].chunks)
                /\ SubSeq(new[i].chunks, 1, Len(old[i].chunks)) = old[i].chunks
    ]_vars

\* a merge copied a chunk into a category of the target that held a chunk
C19_Witness ==
  /\ Succeeded("mergeProjects")
  /\ ret.val.chunksAdded >= 1
  /\ ret.val.categoriesMerged = 0
  /\ Len(AllChunks(Doc(Written))) > ret.val.chunksAdded

\* C20: after a successful mergeProjects every chunk id of the source occurs in
\* the target; the first source chunk of each id the target did not have was
\* copied, with a new _uid and otherwise as it is, into the target category
\* whose name matches its category's name case-insensitively, a category made
\* with a new identity where none matched; the other source chunks were skipped,
\* and chunksAdded + chunksSkipped is the number of source chunks.
C20_MergeCopies ==
  [][ Succeeds("mergeProjects") =>
        LET src == Doc(ret'.args.source)
            tgt == Doc(ret'.args.target)
            new == DocAfter(ret'.args.target)
            Earlier(ci, ki) ==
              {c.id : c \in UNION {Range(src.categories[cj].chunks) : cj \in 1..(ci - 1)}
                               \cup Range(SubSeq(src.categories[ci].chunks, 1, ki - 1))}
        IN /\ IdsOf(src) \subseteq IdsOf(new)
           /\ ret'.val.chunksAdded + ret'.val.chunksSkipped = Len(AllChunks(src))
           /\ ret'.val.chunksAdded = Cardinality(IdsOf(src) \ IdsOf(tgt))
           /\ Len(AllChunks(new)) = Len(AllChunks(tgt)) + ret'.val.chunksAdded
           /\ ret'.val.categoriesMerged = Len(new.categories) - Len(tgt.categories)
           /\ \A i \in DOMAIN new.categories :
                i > Len(tgt.categories) =>
                  new.categories[i].id \notin CatIdsOf(tgt) \cup CatIdsOf(src)
           /\ \A ci \in DOMAIN src.categories :
                \A ki \in DOMAIN src.categories[ci].chunks :
                  LET ch == src.categories[ci].chunks[ki]
                  IN ch.id \notin IdsOf(tgt) \cup Earlier(ci, ki) =>
                       \E ti \in DOMAIN new.categories :
                         /\ ToLowerCase(new.categories[ti].name)
                              = ToLowerCase(src.categories[ci].name)
                         /\ \E c \in Range(new.categories[ti].chunks) :
                              /\ c.uid \notin UidsOf(tgt) \cup UidsOf(src)
                              /\ [c EXCEPT !.uid = ch.uid] = ch
    ]_vars

\* a merge made a category in the target, copied a chunk and skipped another
C20_Witness ==
  /\ Succeeded("mergeProjects")
  /\ ret.val.categoriesMerged >= 1
  /\ ret.val.chunksAdded >= 1
  /\ ret.val.chunksSkipped >= 1

\* ---------------------------------------------------------------------------
\* Project names as the tools receive them: "p!" sanitizes to "p" and "!" to
\* the empty name
pBang == <<"p", "!">>

NameInputs == {pP, pBang, <<"!">>}

NextNames ==
  \/ \E n \in NameInputs : InRun /\ CreateProject(n)
  \/ \E n \in {pP, pBang}, j \in JsonInputs, c \in {Undefined, <<"M">>} :
       InRun /\ ImportJSON(n, j, c)
  \/ \E n \in {pP, pBang} : InRun /\ DeleteProject(n)

SpecNames == Init /\ [][NextNames]_vars

\* the categories of project p before a call, none when p has no document
CategoriesBefore(p) == IF Exists(p) THEN Doc(p).categories ELSE <<>>

\* C21: importJSON(p, records, c) fails with InvalidInput, changing nothing, when
\* records is not a sequence; otherwise it succeeds, project p exists afterwards,
\* category c (default "Imported") is created when p had none of that name, a
\* record is imported iff its trimmed id is non-empty and is used neither in the
\* project nor by an earlier record, imported + skipped is the number of records,
\* the imported records are appended to the category in order, and the document of
\* p is the only file written.
C21_ImportJSON ==
  [][ ret'.op = "importJSON" =>
        LET p == ret'.args.project
            json == ret'.args.data
            records == json.entries
            catName == Or(ret'.args.category, DefaultImportCategory)
            cats == CategoriesBefore(p)
            found == FindCategory([categories |-> cats], catName)
            ci == IF found = 0 THEN Len(cats) + 1 ELSE found
            before == IF found = 0 THEN <<>> ELSE cats[ci].chunks
            used == {ch.id : ch \in Range(Flatten([i \in DOMAIN cats |-> cats[i].chunks]))}
            id == [i \in DOMAIN records |-> Trim(Or(records[i].id, <<>>))]
            Accepted(i) == /\ id[i] # <<>>
                           /\ id[i] \notin used
                           /\ \A j \in 1..(i - 1) : id[j] # id[i]
            accepted == SelectSeq([i \in DOMAIN records |-> i], Accepted)
        IN IF ~json.isArray
             THEN ret'.err = "InvalidInput" /\ files' = files
           ELSE /\ ret'.err = "none"
                /\ DOMAIN files' = DOMAIN files \cup {FilePath(p)}
                /\ \A fp \in DOMAIN files : fp # FilePath(p) => files'[fp] = files[fp]
                /\ ret'.val.imported = Len(accepted)
                /\ ret'.val.imported + ret'.val.skipped = Len(records)
                /\ LET after == DocAfter(p).categories
                   IN /\ Len(after) = (IF found = 0 THEN Len(cats) + 1 ELSE Len(cats))
                      /\ \A i \in DOMAIN cats : i # ci => after[i] = cats[i]
                      /\ after[ci].name = (IF found = 0 THEN catName ELSE cats[ci].name)
                      /\ Len(after[ci].chunks) = Len(before) + Len(accepted)
                      /\ SubSeq(after[ci].chunks, 1, Len(before)) = before
                      /\ \A k \in DOMAIN accepted :
                           /\ after[ci].chunks[Len(before) + k].id = id[accepted[k]]
                           /\ after[ci].chunks[Len(before) + k].text
                                = Or(records[accepted[k]].text, <<>>)
    ]_vars

\* the custom fields of a chunk whose key is not `field`, in order
WithoutKey(customFields, field) ==
  LET Other(cf) == cf.key # field
  IN SelectSeq(customFields, Other)

\* how many custom fields of a chunk have the key `field`
KeyCount(customFields, field) ==
  Cardinality({i \in DOMAIN customFields : customFields[i].key = field})

\* C22: bulkUpdateMetadata fails with NotFound, changing nothing, when a category
\* is named and the project has none of that name; otherwise it succeeds, returns
\* the number of chunks in scope (the named category, or the whole project), and
\* every chunk in scope is as before except that the field has the value: a
\* standard field in metadata, any other field as the one custom field with that
\* key, updated where the chunk had it and appended where it had not; chunks out
\* of scope and everything else in the document are unchanged.
C22_BulkUpdateMetadata ==
  [][ (ret'.op = "bulkUpdateMetadata" /\ Exists(ret'.args.project)) =>
        LET p == ret'.args.project
            field == ret'.args.field
            value == ret'.args.value
            c == ret'.args.category
            old == Doc(p)
            ci == IF Truthy(c) THEN FindCategory(old, c) ELSE 0
            InScope(i) == ~Truthy(c) \/ i = ci
            Updated(a, b) ==
              IF IsStandard(field)
                THEN /\ ObjGet(MetaObj(b.metadata), field) = value
                     /\ \A f \in Range(STANDARD_META) :
                          f # field => ObjGet(MetaObj(b.metadata), f) = ObjGet(MetaObj(a.metadata), f)
                     /\ b = [a EXCEPT !.metadata = b.metadata]
                ELSE /\ KeyCount(b.customFields, field) = 1
                     /\ \A i \in DOMAIN b.customFields :
                          b.customFields[i].key = field => b.customFields[i].value = value
                     /\ WithoutKey(b.customFields, field) = WithoutKey(a.customFields, field)
                     /\ KeyCount(a.customFields, field) = 0 =>
                          b.customFields[Len(b.customFields)].key = field
                     /\ Len(b.customFields) = Len(a.customFields)
                          + (IF KeyCount(a.customFields, field) = 0 THEN 1 ELSE 0)
                     /\ b = [a EXCEPT !.customFields = b.customFields]
        IN IF Truthy(c) /\ ci = 0
             THEN ret'.err = "NotFound" /\ files' = files
           ELSE /\ ret'.err = "none"
                /\ OnlyDocChanged(p)
                /\ LET new == DocAfter(p)
                   IN /\ Len(new.categories) = Len(old.categories)
                      /\ \A i \in DOMAIN old.categories :
                           LET before == old.categories[i]
                               after == new.categories[i]
                           IN IF ~InScope(i) THEN after = before
                              ELSE /\ Len(after.chunks) = Len(before.chunks)
                                   /\ after = [before EXCEPT !.chunks = after.chunks]
                                   /\ \A k \in DOMAIN before.chunks :
                                        Updated(before.chunks[k], after.chunks[k])
                      /\ new = [old EXCEPT !.categories = new.categories]
                      /\ ret'.val.updated =
                           SumSeq([i \in DOMAIN old.categories |->
                                     IF InScope(i) THEN Len(old.categories[i].chunks) ELSE 0])
    ]_vars

\* bulkUpdateMetadata set the custom field k on the chunks of category M, one of
\* which has another custom field before it, while the project holds more chunks
\* than the call updated
C22_Witness ==
  /\ Succeeded("bulkUpdateMetadata")
  /\ ret.args.field = <<"k">>
  /\ Truthy(ret.args.category)
  /\ ret.val.updated >= 1
  /\ TotalChunks(Doc(Written)) > ret.val.updated
  /\ \E ch \in Range(Doc(Written).categories[FindCategory(Doc(Written), ret.args.category)].chunks) :
       KeyCount(ch.customFields, <<"k">>) = 1

\* ---------------------------------------------------------------------------
\* Reading the history

\* Store.getCommit with prev taken from the commit itself
GetCommitOwnSnapshot(name, commitId) ==
  LET args == [project |-> name, commit_id |-> commitId]
      history == LoadHistory(files, name)
      HasId(c) == c.id = commitId
      idx == FindIndex(history.commits, HasId)
      commit == history.commits[idx]
      prev == IF idx + 1 <= Len(history.commits) THEN <<commit.snapshot>> ELSE <<>>
  IN /\ ret' = IF idx = 0 THEN Throw("getCommit", args, "NotFound")
               ELSE Return("getCommit", args,
                           [id |-> commit.id, source |-> commit.source,
                            action |-> commit.action, stats |-> commit.stats,
                            snapshot |-> commit.snapshot, prevSnapshot |-> prev])
     /\ UNCHANGED <<files, recorded>>

\* Store.getCommit. prevSnapshot is the empty sequence for null and the one-element
\* sequence of the snapshot otherwise; indices are 1-based, 0 is findIndex's -1
GetCommit(name, commitId) ==
  LET args == [project |-> name, commit_id |-> commitId]
      history == LoadHistory(files, name)
      HasId(c) == c.id = commitId
      idx == FindIndex(history.commits, HasId)
      commit == history.commits[idx]
      prev == IF idx + 1 <= Len(history.commits)
                THEN <<history.commits[idx + 1].snapshot>> ELSE <<>>
  IN /\ ret' = IF idx = 0 THEN Throw("getCommit", args, "NotFound")
               ELSE Return("getCommit", args,
                           [id |-> commit.id, source |-> commit.source,
                            action |-> commit.action, stats |-> commit.stats,
                            snapshot |-> commit.snapshot, prevSnapshot |-> prev])
     /\ UNCHANGED <<files, recorded>>

\* the longest run of calls, and the most commits, of the model of one project
\* that is edited, committed, read and rolled back
MaxLedgerCalls == 6
MaxLedgerCommits == 3

InEditRun ==
  /\ calls < MaxLedgerCalls
  /\ ret.err = "none"
  /\ calls' = calls + 1
  /\ UNCHANGED server

\* a project name that createProject accepts as it is; its document has the path
\* of the history document of project p
pHistory == <<"p", ".", "h", "i", "s", "t", "o", "r", "y">>

NextEdit ==
  \/ InEditRun /\ ImportJSON(pP, [isArray |-> TRUE, entries |-> <<chunkA, chunkB>>], <<"M">>)
  \/ InEditRun /\ CreateCategory(pP, <<"N">>)
  \/ \E id \in LookupIds(pP) : InEditRun /\ DeleteChunk(pP, id)
  \/ \E n \in {pP, pHistory} : InEditRun /\ DeleteProject(n)
  \/ InEditRun /\ CommitCall(pP, "edit", <<"b","r","o","w","s","e","r">>, MaxLedgerCommits)
  \/ \E c \in CommitIds(MaxLedgerCommits) :
       InEditRun /\ RollbackCall(pP, c, <<"m","c","p">>, MaxLedgerCommits)
  \/ \E c \in CommitIds(MaxLedgerCommits) : InEditRun /\ GetCommit(pP, c)

SpecEdit == Init /\ [][NextEdit]_vars

\* C23: getCommit(p, c) fails with NotFound when no commit of p's history has id
\* c; otherwise it returns that commit with its snapshot, and prevSnapshot is the
\* snapshot of the next entry of the newest-first history, which is the commit
\* recorded for p immediately before c, and is null exactly when c is the last
\* entry; the call changes no file.
C23_GetCommit ==
  [][ ret'.op = "getCommit" =>
        LET p == ret'.args.project
            c == ret'.args.commit_id
            h == History(p)
            rec == RecordedFor(p)
            at == {i \in DOMAIN h : h[i].id = c}
        IN /\ files' = files
           /\ IF at = {} THEN ret'.err = "NotFound"
              ELSE /\ ret'.err = "none"
                   /\ \A i \in at :
                        /\ ret'.val.id = c
                        /\ ret'.val.snapshot = h[i].snapshot
                        /\ (ret'.val.prevSnapshot = <<>>) <=> (i = Len(h))
                        /\ i < Len(h) =>
                             /\ ret'.val.prevSnapshot = <<h[i + 1].snapshot>>
                             /\ \E k \in DOMAIN rec :
                                  /\ k > 1
                                  /\ rec[k] = c
                                  /\ rec[k - 1] = h[i + 1].id
    ]_vars

\* getCommit returned a commit together with the different snapshot of the commit
\* recorded before it
C23_Witness ==
  /\ Succeeded("getCommit")
  /\ ret.val.prevSnapshot # <<>>
  /\ ret.val.prevSnapshot[1] # ret.val.snapshot

\* ---------------------------------------------------------------------------
\* _commit when reading or writing the history document throws

\* the statement of _commit's try block that throws: none, _loadHistory's read or
\* _saveHistory's write (a write that throws before it changed the file)
Faults == {"none", "loadHistory", "saveHistory"}

\* Store._commit under a fault: the catch leaves the data directory as it is
CommitFilesUnder(fs, projectName, commitId, action, source, fault) ==
  IF fault = "none" THEN CommitFiles(fs, projectName, commitId, action, source) ELSE fs

\* Store._commit called after a mutation, under a fault
CommitUnder(projectName, action, source, fault, bound) ==
  /\ Len(recorded) < bound
  /\ files' = CommitFilesUnder(files, projectName, Len(recorded) + 1, action, source, fault)
  /\ recorded' = IF fault = "none" THEN Recorded(files, projectName, action) ELSE recorded
  /\ ret' = Return("_commit", [project |-> projectName, action |-> action, fault |-> fault],
                   Undefined)

\* rollback with a _commit that lets the exception through
RollbackUnderNoCatch(name, commitId, source, fault, bound) ==
  LET args == [project |-> name, commit_id |-> commitId, fault |-> fault]
      history == LoadHistory(files, name)
      HasId(c) == c.id = commitId
      i == FindIndex(history.commits, HasId)
      saved == Save(files, name, history.commits[i].snapshot)
      after == CommitFilesUnder(saved, name, Len(recorded) + 1, "rollback",
                                Or(source, <<"m","c","p">>), fault)
  IN IF i = 0
       THEN files' = files /\ ret' = Throw("rollback", args, "NotFound") /\ UNCHANGED recorded
       ELSE /\ Len(recorded) < bound
            /\ files' = after
            /\ recorded' = IF fault = "none" THEN Recorded(saved, name, "rollback") ELSE recorded
            /\ ret' = IF fault = "none" THEN Return("rollback", args, after[FilePath(name)])
                      ELSE Throw("rollback", args, fault)

\* Store.rollback, its _commit under a fault
RollbackUnder(name, commitId, source, fault, bound) ==
  LET args == [project |-> name, commit_id |-> commitId, fault |-> fault]
      history == LoadHistory(files, name)
      HasId(c) == c.id = commitId
      i == FindIndex(history.commits, HasId)
      saved == Save(files, name, history.commits[i].snapshot)
      after == CommitFilesUnder(saved, name, Len(recorded) + 1, "rollback",
                                Or(source, <<"m","c","p">>), fault)
  IN IF i = 0
       THEN files' = files /\ ret' = Throw("rollback", args, "NotFound") /\ UNCHANGED recorded
       ELSE /\ Len(recorded) < bound
            /\ files' = after
            /\ recorded' = IF fault = "none" THEN Recorded(saved, name, "rollback") ELSE recorded
            /\ ret' = Return("rollback", args, after[FilePath(name)])

NextFaults ==
  \/ InEditRun /\ ImportJSON(pP, [isArray |-> TRUE, entries |-> <<chunkA, chunkB>>], <<"M">>)
  \/ InEditRun /\ CreateCategory(pP, <<"N">>)
  \/ InEditRun /\ DeleteProject(pP)
  \/ \E f \in Faults :
       InEditRun /\ CommitUnder(pP, "edit", <<"b","r","o","w","s","e","r">>, f, MaxLedgerCommits)
  \/ \E c \in CommitIds(MaxLedgerCommits), f \in Faults :
       InEditRun /\ RollbackUnder(pP, c, <<"m","c","p">>, f, MaxLedgerCommits)

SpecFaults == Init /\ [][NextFaults]_vars

\* C24: _commit never throws and never changes a project document, and changes no
\* file at all when the project has no document or when reading or writing the
\* history throws; a rollback to a commit of the history whose _commit fails still
\* succeeds, leaves the project document equal to that commit's snapshot, returns
\* it, and leaves the history as it was.
C24_CommitBestEffort ==
  [][ /\ ret'.op = "_commit" =>
           LET p == ret'.args.project
           IN /\ ret'.err = "none"
              /\ \A q \in ProjectNames :
                   /\ Exists(q) <=> FilePath(q) \in DOMAIN files'
                   /\ Exists(q) => DocAfter(q) = Doc(q)
              /\ (ret'.args.fault # "none" \/ ~Exists(p)) => files' = files
      /\ (ret'.op = "rollback" /\ ret'.args.fault # "none") =>
           LET p == ret'.args.project
               h == History(p)
               at == {i \in DOMAIN h : h[i].id = ret'.args.commit_id}
           IN at # {} =>
                /\ ret'.err = "none"
                /\ \A i \in at : DocAfter(p) = h[i].snapshot /\ ret'.val = h[i].snapshot
                /\ HistoryAfter(p) = h
                /\ \A fp \in DOMAIN files : fp # FilePath(p) => files'[fp] = files[fp]
    ]_vars

\* a rollback whose history write failed: the project is back at a snapshot that
\* is not the newest commit's, and no rollback commit was recorded
C24_Witness ==
  /\ Succeeded("rollback")
  /\ ret.args.fault = "saveHistory"
  /\ Doc(pP) = ret.val
  /\ Doc(pP) # History(pP)[1].snapshot
  /\ RollbacksRecorded = 0

\* C25: every step leaves the commits of each project's history as they were, in
\* id, order and snapshot, behind the at most one commit the step recorded; a
\* commit is dropped only from the end and only when the history would exceed
\* MAX_HISTORY entries.
C25_HistoryAppendOnly ==
  [][ \A p \in ProjectNames :
        LET h == History(p)
            g == HistoryAfter(p)
        IN \E k \in {0, 1} :
             /\ Len(g) = Min(Len(h) + k, MAX_HISTORY)
             /\ \A i \in 1..(Len(g) - k) : g[i + k] = h[i]
    ]_vars

\* the document at path fp is the same before and after the step, or absent both
\* times
SameFile(fp) ==
  /\ fp \in DOMAIN files <=> fp \in DOMAIN files'
  /\ fp \in DOMAIN files => files'[fp] = files[fp]

\* C26: deleteProject(p) fails with NotFound, changing nothing, when p has no
\* project document; otherwise it succeeds and removes that document, and the
\* history document of every project, p included, and the project document of
\* every other project are as they were.
C26_DeleteProject ==
  [][ ret'.op = "deleteProject" =>
        LET p == ret'.args.name
        IN IF ~Exists(p) THEN ret'.err = "NotFound" /\ files' = files
           ELSE /\ ret'.err = "none"
                /\ FilePath(p) \notin DOMAIN files'
                /\ \A q \in ProjectNames \cup {pHistory} :
                     /\ SameFile(HistoryFilePath(q))
                     /\ q # p => SameFile(FilePath(q))
    ]_vars

\* C27: createProject(name) fails with InvalidName when the sanitized name is
\* empty and with AlreadyExists when the sanitized name has a project document,
\* and then changes nothing; in every other case it succeeds and adds one file,
\* the document of the sanitized name, a project of that name with no categories.
C27_CreateProject ==
  [][ ret'.op = "createProject" =>
        LET name == ret'.args.name
            safeName == SafeName(name)
        IN IF safeName = <<>> THEN ret'.err = "InvalidName" /\ files' = files
           ELSE IF Exists(safeName) THEN ret'.err = "AlreadyExists" /\ files' = files
           ELSE /\ ret'.err = "none"
                /\ DOMAIN files' = DOMAIN files \cup {FilePath(safeName)}
                /\ \A fp \in DOMAIN files : files'[fp] = files[fp]
                /\ DocAfter(safeName).name = safeName
                /\ DocAfter(safeName).categories = <<>>
    ]_vars

\* createProject("p!") made project p; no document is named p!
C27_Witness ==
  /\ Succeeded("createProject")
  /\ ret.args.name = pBang
  /\ SafeName(pBang) = pP
  /\ Exists(pP)
  /\ Doc(pP).categories = <<>>
  /\ ~Exists(pBang)

\* ---------------------------------------------------------------------------
\* Exports

\* Store.exportProject
ExportProject(projectName) ==
  LET args == [project |-> projectName]
  IN /\ ret' = IF ~ExistsSync(files, FilePath(projectName))
                 THEN Throw("exportProject", args, "NotFound")
               ELSE Return("exportProject", args, ExportProjectOp(files[FilePath(projectName)]))
     /\ UNCHANGED <<files, recorded>>

\* Store.exportCategory
ExportCategory(projectName, categoryName) ==
  LET args == [project |-> projectName, category |-> categoryName]
      r == ExportCategoryOp(files[FilePath(projectName)], categoryName)
  IN /\ ret' = IF ~ExistsSync(files, FilePath(projectName))
                 THEN Throw("exportCategory", args, "NotFound")
               ELSE IF r.err # "none" THEN Throw("exportCategory", args, r.err)
               ELSE Return("exportCategory", args, r.val)
     /\ UNCHANGED <<files, recorded>>

\* chunk arguments whose metadata keys have surrounding or only whitespace: " k"
\* next to "k", " source", and " "
kSpaceK == <<" ", "k">>
kSpaceSource == <<" ">> \o kSource

chunkTwoKeys ==
  ChunkArg(idA, <<"t">>, <<[key |-> kSpaceK, value |-> <<"v">>], [key |-> <<"k">>, value |-> <<"w">>]>>)

chunkShadow ==
  ChunkArg(idB, <<>>, <<[key |-> kSource, value |-> <<"s">>],
                        [key |-> kSpaceSource, value |-> <<"x">>],
                        [key |-> <<" ">>, value |-> <<"y">>]>>)

chunkC == ChunkArg(<<"c">>, <<"t">>, <<[key |-> kSpaceK, value |-> <<"v">>]>>)

ExportChunkArgs == {chunkTwoKeys, chunkShadow, chunkC}

MaxExportCalls == 5

InExportRun ==
  /\ calls < MaxExportCalls
  /\ ret.err = "none"
  /\ calls' = calls + 1
  /\ UNCHANGED server

NextExport ==
  \/ InExportRun /\ CreateProject(pP)
  \/ \E c \in {<<"M">>, <<"N">>} : InExportRun /\ CreateCategory(pP, c)
  \/ \E c \in {<<"M">>, <<"N">>}, ch \in ExportChunkArgs : InExportRun /\ AddChunk(pP, c, ch)
  \/ InExportRun /\ ExportProject(pP)
  \/ \E c \in {<<"m">>, <<"N">>} : InExportRun /\ ExportCategory(pP, c)

SpecExport == Init /\ [][NextExport]_vars

\* the chunks an export call covers, in category then chunk order
ChunksInScope ==
  IF ret'.op = "exportProject" THEN AllChunks(Doc(ret'.args.project))
  ELSE Doc(ret'.args.project).categories[FindCategory(Doc(ret'.args.project),
                                                       ret'.args.category)].chunks

NonBlankKey(cf) == Truthy(cf.key) /\ Trim(cf.key) # <<>>

\* C28: a successful exportProject or exportCategory returns one record per chunk
\* in scope, in category then chunk order, with the chunk's id and text; its
\* metadata has the three standard keys, holds every custom field with a
\* non-blank key (under the trimmed key, with the field's value) and has no other
\* key; a standard key has the chunk's standard value unless a custom field has
\* that key.
C28_Export ==
  [][ (ret'.op \in {"exportProject", "exportCategory"} /\ ret'.err = "none") =>
        LET chunks == ChunksInScope
            out == ret'.val
        IN /\ Len(out) = Len(chunks)
           /\ \A i \in DOMAIN chunks :
                LET ch == chunks[i]
                    m == out[i].metadata
                    custom == {k \in DOMAIN ch.customFields : NonBlankKey(ch.customFields[k])}
                    customKeys == {Trim(ch.customFields[k].key) : k \in custom}
                IN /\ out[i].id = ch.id
                   /\ out[i].text = ch.text
                   /\ DistinctAt(m, LAMBDA e : e.key)
                   /\ {m[j].key : j \in DOMAIN m} = Range(STANDARD_META) \cup customKeys
                   /\ \A f \in Range(STANDARD_META) \ customKeys :
                        ObjGet(m, f) = ObjGet(MetaObj(ch.metadata), f)
                   /\ \A k \in custom :
                        ObjGet(m, Trim(ch.customFields[k].key)) = StringOf(ch.customFields[k].value)
    ]_vars

\* ---------------------------------------------------------------------------
\* The server process: session state, routing and the calls in flight.  A step
\* is what one callback of the event loop does between two awaits.

\* isConnected()
IsConnected == sessionWs # Null /\ sockets[sessionWs].readyState = "OPEN"

\* ws.close(): the close event follows later
CloseSocket(ss, s) ==
  [ss EXCEPT ![s].readyState = IF @ \in {"CONNECTING", "OPEN"} THEN "CLOSING" ELSE @]

SessionTools == {"connect_session", "disconnect_session"}

\* the session codes and the base URL given to connect_session
Codes == {<<"A">>, <<"B">>}
Base == <<"u">>

\* what the model's import_json, add_chunk and parse_url calls carry
ImportData == [isArray |-> TRUE, entries |-> <<chunkA>>]
ParsedChunks == <<chunkC, chunkA>>

\* the handler is entered: one more tool call dispatched
InServerRun ==
  /\ calls < MaxServerCalls
  /\ calls' = calls + 1

Routed(tool, route, seen) == [tool |-> tool, route |-> route, seq |-> calls + 1, seen |-> seen]

\* the project document a _load would return now: none, or one
Seen(projectName) ==
  IF ExistsSync(files, FilePath(projectName)) THEN <<files[FilePath(projectName)]>> ELSE <<>>

\* connect_session up to `await fetch(health)`
ConnectSession(h, code) ==
  /\ inflight[h] = Idle
  /\ sockets' = IF IsConnected THEN CloseSocket(sockets, sessionWs) ELSE sockets
  /\ sessionWs' = IF IsConnected THEN Null ELSE sessionWs
  /\ inflight' = [inflight EXCEPT ![h] = [pc |-> "health", code |-> code]]
  /\ routed' = [routed EXCEPT ![h] = Routed("connect_session", "session", <<>>)]
  /\ UNCHANGED <<files, ret, recorded, sessionBase, sessionCode>>

\* the health check answered: new WebSocket(wsUrl), or the call fails
HealthDone(h, ok) ==
  /\ inflight[h].pc = "health"
  /\ IF ok
       THEN /\ \E s \in SocketIds :
                 /\ sockets[s].readyState = "NONE"
                 /\ \A t \in SocketIds : t < s => sockets[t].readyState # "NONE"
                 /\ sockets' = [sockets EXCEPT ![s].readyState = "CONNECTING"]
                 /\ inflight' = [inflight EXCEPT ![h] = [pc |-> "handshake",
                                                          code |-> inflight[h].code, ws |-> s,
                                                          timer |-> TRUE]]
            /\ UNCHANGED ret
       ELSE /\ inflight' = [inflight EXCEPT ![h] = Idle]
            /\ ret' = Throw("connect_session", [code |-> inflight[h].code], "Unreachable")
            /\ UNCHANGED sockets
  /\ UNCHANGED <<calls, files, recorded, sessionWs, sessionBase, sessionCode, routed>>

\* ws.on('open'): the socket is open and the timer is cleared
SocketOpen(s) ==
  /\ sockets[s].readyState = "CONNECTING"
  /\ sockets' = [sockets EXCEPT ![s].readyState = "OPEN"]
  /\ inflight' = [h \in Handlers |->
                    IF inflight[h].pc = "handshake" /\ inflight[h].ws = s
                      THEN [inflight[h] EXCEPT !.timer = FALSE] ELSE inflight[h]]
  /\ UNCHANGED <<calls, files, recorded, ret, sessionWs, sessionBase, sessionCode, routed>>

\* the 5000 ms timer fires: nothing cleared it
ConnectTimeout(h) ==
  /\ inflight[h].pc = "handshake"
  /\ inflight[h].timer
  /\ inflight' = [inflight EXCEPT ![h] = Idle]
  /\ ret' = Throw("connect_session", [code |-> inflight[h].code], "Timeout")
  /\ sockets' = CloseSocket(sockets, inflight[h].ws)
  /\ UNCHANGED <<calls, files, recorded, sessionWs, sessionBase, sessionCode, routed>>

\* ws.on('message') with event 'connected', and the rest of connect_session
\* after the promise resolved
Connected(h) ==
  /\ inflight[h].pc = "handshake"
  /\ sockets[inflight[h].ws].readyState = "OPEN"
  /\ sessionWs' = inflight[h].ws
  /\ sessionBase' = Base
  /\ sessionCode' = inflight[h].code
  /\ sockets' = [sockets EXCEPT ![inflight[h].ws].onClose = TRUE]
  /\ ret' = Return("connect_session", [code |-> inflight[h].code], JsTrue)
  /\ inflight' = [inflight EXCEPT ![h] = Idle]
  /\ UNCHANGED <<calls, files, recorded, routed>>

\* ws.on('message') with event 'error'
Rejected(h) ==
  /\ inflight[h].pc = "handshake"
  /\ sockets[inflight[h].ws].readyState = "OPEN"
  /\ sockets' = CloseSocket(sockets, inflight[h].ws)
  /\ ret' = Throw("connect_session", [code |-> inflight[h].code], "Rejected")
  /\ inflight' = [inflight EXCEPT ![h] = Idle]
  /\ UNCHANGED <<calls, files, recorded, sessionWs, sessionBase, sessionCode, routed>>

\* the web app starts closing an open socket
SocketClosing(s) ==
  /\ sockets[s].readyState = "OPEN"
  /\ sockets' = [sockets EXCEPT ![s].readyState = "CLOSING"]
  /\ UNCHANGED <<calls, files, recorded, ret, sessionWs, sessionBase, sessionCode, inflight, routed>>

\* the socket is closed and its 'close' listeners run: the one of the connect
\* promise, which rejects only `if (!sessionWs)`, then the one connect_session
\* registered after the handshake, which clears the session variables
SocketClosed(s) ==
  LET waiting == {h \in Handlers : inflight[h].pc = "handshake" /\ inflight[h].ws = s}
      rejected == IF sessionWs = Null THEN waiting ELSE {}
  IN /\ sockets[s].readyState \in {"CONNECTING", "OPEN", "CLOSING"}
     /\ sockets' = [sockets EXCEPT ![s].readyState = "CLOSED"]
     /\ inflight' = [h \in Handlers |-> IF h \in rejected THEN Idle ELSE inflight[h]]
     /\ ret' = IF rejected = {} THEN ret
               ELSE Throw("connect_session",
                          [code |-> inflight[CHOOSE h \in rejected : TRUE].code], "Closed")
     /\ sessionWs' = IF sockets[s].onClose THEN Null ELSE sessionWs
     /\ sessionBase' = IF sockets[s].onClose THEN JsNull ELSE sessionBase
     /\ sessionCode' = IF sockets[s].onClose THEN JsNull ELSE sessionCode
     /\ UNCHANGED <<calls, files, recorded, routed>>

\* disconnect_session
DisconnectSession(h) ==
  /\ inflight[h] = Idle
  /\ sockets' = IF sessionWs # Null THEN CloseSocket(sockets, sessionWs) ELSE sockets
  /\ sessionWs' = Null
  /\ sessionBase' = IF sessionWs # Null THEN JsNull ELSE sessionBase
  /\ sessionCode' = IF sessionWs # Null THEN JsNull ELSE sessionCode
  /\ ret' = Return("disconnect_session", <<>>, JsTrue)
  /\ routed' = [routed EXCEPT ![h] = Routed("disconnect_session", "session", <<>>)]
  /\ UNCHANGED <<files, recorded, inflight>>

\* the local-mode switch: import_json with data and add_chunk run the store call
\* at once, parse_url first awaits the page
LocalCall(h, tool) ==
  /\ routed' = [routed EXCEPT ![h] = Routed(tool, "local", Seen(pP))]
  /\ UNCHANGED <<sessionWs, sessionBase, sessionCode, sockets>>
  /\ CASE tool = "import_json" -> ImportJSON(pP, ImportData, <<"M">>) /\ UNCHANGED inflight
       [] tool = "add_chunk" -> AddChunk(pP, <<"M">>, chunkB) /\ UNCHANGED inflight
       [] tool = "parse_url" -> /\ inflight' = [inflight EXCEPT ![h] = [pc |-> "parseUrl"]]
                                /\ UNCHANGED <<files, ret, recorded>>
       [] tool = "update_chunk" ->
            UpdateChunk(pP, idA, [NoUpdates EXCEPT !.text = <<"u">>]) /\ UNCHANGED inflight
       [] tool = "unknown_tool" -> /\ ret' = Throw(tool, <<>>, "UnknownTool")
                                   /\ UNCHANGED <<files, recorded, inflight>>

\* handleRemote entered: `const s = sessionCode`, and the first request, for
\* which apiCall reads sessionBase; base0 and code0 keep the session the call was
\* dispatched in
Proxied(tool) ==
  [pc |-> "remote", tool |-> tool, s |-> sessionCode, base |-> sessionBase, sent |-> 1,
   base0 |-> sessionBase, code0 |-> sessionCode]

\* update_chunk, delete_chunk and duplicate_chunk await one request and then
\* issue a second
MultiRequestTools == {"update_chunk"}

\* a tool call that is not a session tool: remote when connected, else local
CallToolNoReadyState(h, tool) ==
  /\ inflight[h] = Idle
  /\ IF sessionWs # Null
       THEN /\ inflight' = [inflight EXCEPT ![h] = Proxied(tool)]
            /\ routed' = [routed EXCEPT ![h] = Routed(tool, "remote", <<>>)]
            /\ UNCHANGED <<files, ret, recorded, sessionWs, sessionBase, sessionCode, sockets>>
       ELSE LocalCall(h, tool)

CallTool(h, tool) ==
  /\ inflight[h] = Idle
  /\ IF IsConnected
       THEN /\ inflight' = [inflight EXCEPT ![h] = Proxied(tool)]
            /\ routed' = [routed EXCEPT ![h] = Routed(tool, "remote", <<>>)]
            /\ UNCHANGED <<files, ret, recorded, sessionWs, sessionBase, sessionCode, sockets>>
       ELSE LocalCall(h, tool)

\* handleRemote's request answered
RemoteDone(h, ok) ==
  /\ inflight[h].pc = "remote"
  /\ inflight[h].tool \in MultiRequestTools => inflight[h].sent = 2 \/ ~ok
  /\ ret' = IF inflight[h].tool = "unknown_tool"
              THEN Throw(inflight[h].tool, <<>>, "UnknownTool")
            ELSE IF ok THEN Return(inflight[h].tool, <<>>, JsTrue)
            ELSE Throw(inflight[h].tool, <<>>, "API")
  /\ inflight' = [inflight EXCEPT ![h] = Idle]
  /\ UNCHANGED <<calls, files, recorded, sessionWs, sessionBase, sessionCode, sockets, routed>>

\* the first request of a multi-request tool answered, the second one issued:
\* apiCall reads sessionBase again, the body carries s
RemoteRequest(h) ==
  /\ inflight[h].pc = "remote"
  /\ inflight[h].tool \in MultiRequestTools
  /\ inflight[h].sent = 1
  /\ inflight' = [inflight EXCEPT ![h].sent = 2, ![h].base = sessionBase]
  /\ UNCHANGED <<calls, files, recorded, ret, sessionWs, sessionBase, sessionCode, sockets, routed>>

\* parse_url saving over the document as it was when the call was dispatched
ParseUrlDoneStaleLoad(h) ==
  /\ inflight[h].pc = "parseUrl"
  /\ IF routed[h].seen = <<>> THEN BulkAddChunks(pP, <<"M">>, ParsedChunks)
     ELSE LET r == BulkAddChunksOp(routed[h].seen[1], <<"M">>, ParsedChunks, FreshUids)
          IN /\ ~r.starved
             /\ r.err = "none"
             /\ files' = Save(files, pP, r.data)
             /\ ret' = Return("bulkAddChunks",
                              [project |-> pP, category |-> <<"M">>, chunks |-> ParsedChunks], r.val)
             /\ UNCHANGED recorded
  /\ inflight' = [inflight EXCEPT ![h] = Idle]
  /\ UNCHANGED <<calls, sessionWs, sessionBase, sessionCode, sockets, routed>>

\* parse_url after `await parseUrl(args.url)`: store.bulkAddChunks
ParseUrlDone(h) ==
  /\ inflight[h].pc = "parseUrl"
  /\ BulkAddChunks(pP, <<"M">>, ParsedChunks)
  /\ inflight' = [inflight EXCEPT ![h] = Idle]
  /\ UNCHANGED <<calls, sessionWs, sessionBase, sessionCode, sockets, routed>>

NextServer ==
  \/ \E h \in Handlers, c \in Codes : InServerRun /\ ConnectSession(h, c)
  \/ \E h \in Handlers, ok \in BOOLEAN : HealthDone(h, ok)
  \/ \E s \in SocketIds : SocketOpen(s)
  \/ \E h \in Handlers : ConnectTimeout(h)
  \/ \E h \in Handlers : Connected(h)
  \/ \E h \in Handlers : Rejected(h)
  \/ \E s \in SocketIds : SocketClosing(s)
  \/ \E s \in SocketIds : SocketClosed(s)
  \/ \E h \in Handlers : InServerRun /\ DisconnectSession(h)
  \/ \E h \in Handlers, t \in {"import_json", "add_chunk", "parse_url"} :
       InServerRun /\ CallTool(h, t)
  \/ \E h \in Handlers, ok \in BOOLEAN : RemoteDone(h, ok)
  \/ \E h \in Handlers : ParseUrlDone(h)

SpecServer == Init /\ [][NextServer]_vars

\* the files a step wrote
FilesWritten == {fp \in DOMAIN files' : fp \notin DOMAIN files \/ files'[fp] # files[fp]}

\* the chunk ids of project p's document, none when it has no document
IdsBefore(p) == IF Exists(p) THEN IdsOf(Doc(p)) ELSE {}

\* C29: with tool calls in flight concurrently in local mode, every step that
\* changes the data directory is one store operation on the document as it is
\* then: it writes one file, keeps every chunk the document held, whichever call
\* put it there, and adds what the operation reports, so the document reflects
\* every call that succeeded.
C29_NoLostUpdate ==
  [][ files' # files =>
        /\ DOMAIN files \subseteq DOMAIN files'
        /\ Cardinality(FilesWritten) = 1
        /\ Exists(pP) => Range(AllChunks(Doc(pP))) \subseteq Range(AllChunks(DocAfter(pP)))
        /\ Succeeds("bulkAddChunks") =>
             Cardinality(IdsOf(DocAfter(pP)) \ IdsBefore(pP)) = ret'.val.added
        /\ Succeeds("importJSON") =>
             Cardinality(IdsOf(DocAfter(pP)) \ IdsBefore(pP)) = ret'.val.imported
        /\ Succeeds("addChunk") => IdsOf(DocAfter(pP)) \ IdsBefore(pP) = {idB}
    ]_vars

\* a parse_url call was dispatched, an add_chunk call was dispatched and served
\* while it awaited the page, then the parse_url call added its chunk: the
\* document holds the chunks of both
C29_Witness ==
  /\ Succeeded("bulkAddChunks")
  /\ ret.val.added >= 1
  /\ \E h, g \in Handlers :
       /\ h # g
       /\ inflight[h] = Idle /\ inflight[g] = Idle
       /\ routed[h].tool = "parse_url" /\ routed[h].route = "local"
       /\ routed[g].tool = "add_chunk" /\ routed[g].route = "local"
       /\ routed[h].seq < routed[g].seq
       /\ routed[g].seq = calls
       /\ routed[h].seen # <<>>
       /\ idB \notin IdsOf(routed[h].seen[1])
       /\ {idB, <<"c">>} \subseteq IdsOf(Doc(pP))

\* the call dispatched by the step, if the step dispatched one
Dispatched == {h \in Handlers : calls' # calls /\ routed'[h].seq = calls'}

\* C30: a tool call other than connect_session and disconnect_session is
\* forwarded to the web app iff, when it is dispatched, sessionWs is set and its
\* socket is OPEN; a forwarded call never changes the data directory, which only
\* locally served calls change; once disconnect_session has returned or the
\* session's socket has closed the server is not connected, and it becomes
\* connected again only when a connect_session call completes its handshake.
C30_Routing ==
  [][ /\ \A h \in Dispatched :
           routed'[h].tool \notin SessionTools =>
             /\ routed'[h].route = "remote"
                  <=> (sessionWs # Null /\ sockets[sessionWs].readyState = "OPEN")
             /\ routed'[h].route = "remote" => files' = files /\ inflight'[h].pc = "remote"
             /\ routed'[h].route # "remote" => routed'[h].route = "local" /\ inflight'[h].pc # "remote"
      /\ \A h \in Handlers :
           (inflight[h].pc = "remote" /\ inflight'[h] # inflight[h]) => files' = files
      /\ files' # files =>
           \E h \in Handlers :
             /\ routed'[h].route = "local"
             /\ h \in Dispatched \/ inflight[h].pc = "parseUrl"
      /\ \A h \in Dispatched : routed'[h].tool = "disconnect_session" => ~IsConnected'
      /\ \A s \in SocketIds :
           (s = sessionWs /\ sockets[s].readyState # "CLOSED" /\ sockets'[s].readyState = "CLOSED")
             => ~IsConnected'
      /\ (~IsConnected /\ IsConnected') =>
           /\ Succeeds("connect_session")
           /\ \E h \in Handlers : inflight[h].pc = "handshake" /\ inflight'[h] = Idle
    ]_vars

\* a call was forwarded while a session was open; the session ended, and the
\* call dispatched after that was served by the local store
C30_Witness ==
  /\ sessionWs = Null
  /\ \E s \in SocketIds : sockets[s].onClose
  /\ \E h, g \in Handlers :
       /\ routed[h].route = "remote"
       /\ routed[g].route = "local"
       /\ routed[g].seq = calls
       /\ routed[h].seq < routed[g].seq
  /\ Succeeded("importJSON")


\* ---------------------------------------------------------------------------
\* The response of the call handler

\* what the CallTool handler returns for the outcome r of the operation: the
\* result as text, or from its catch the text `Error: ${err.message}` with isError
ResponseNoCatch(r) ==
  [isError |-> FALSE, prefix |-> "", message |-> r.err, thrown |-> r.err # "none"]

Response(r) ==
  IF r.err = "none"
    THEN [isError |-> FALSE, prefix |-> "", message |-> "none", thrown |-> FALSE]
  ELSE [isError |-> TRUE, prefix |-> "Error: ", message |-> r.err, thrown |-> FALSE]

\* the tools the session specification calls
ProxiedTools == {"import_json", "update_chunk", "unknown_tool"}

\* connecting, disconnecting and proxied calls, among them one that issues two
\* requests and one no mode knows
NextSession ==
  \/ \E h \in Handlers, c \in Codes : InServerRun /\ ConnectSession(h, c)
  \/ \E h \in Handlers, ok \in BOOLEAN : HealthDone(h, ok)
  \/ \E s \in SocketIds : SocketOpen(s)
  \/ \E h \in Handlers : ConnectTimeout(h)
  \/ \E h \in Handlers : Connected(h)
  \/ \E h \in Handlers : Rejected(h)
  \/ \E s \in SocketIds : SocketClosing(s)
  \/ \E s \in SocketIds : SocketClosed(s)
  \/ \E h \in Handlers : InServerRun /\ DisconnectSession(h)
  \/ \E h \in Handlers, t \in ProxiedTools : InServerRun /\ CallTool(h, t)
  \/ \E h \in Handlers : RemoteRequest(h)
  \/ \E h \in Handlers, ok \in BOOLEAN : RemoteDone(h, ok)

SpecSession == Init /\ [][NextSession]_vars

\* a call ended in this step: a handler left its await, or a call that awaits
\* nothing was dispatched
CallEnded ==
  \/ \E h \in Handlers : inflight[h] # Idle /\ inflight'[h] = Idle
  \/ calls' # calls /\ inflight' = inflight

C32_SessionKept ==
  [][ (sessionWs # Null /\ sessionWs' # sessionWs) =>
        \/ calls' # calls
        \/ sessionWs' # Null
        \/ /\ sockets[sessionWs].readyState # "CLOSED"
           /\ sockets'[sessionWs].readyState = "CLOSED" ]_vars


\* ---------------------------------------------------------------------------
\* Connecting, with the progress the runtime guarantees

\* the session tools and the socket events alone
NextConnect ==
  \/ \E h \in Handlers, c \in Codes : InServerRun /\ ConnectSession(h, c)
  \/ \E h \in Handlers, ok \in BOOLEAN : HealthDone(h, ok)
  \/ \E s \in SocketIds : SocketOpen(s)
  \/ \E h \in Handlers : ConnectTimeout(h)
  \/ \E h \in Handlers : Connected(h)
  \/ \E h \in Handlers : Rejected(h)
  \/ \E s \in SocketIds : SocketClosing(s)
  \/ \E s \in SocketIds : SocketClosed(s)
  \/ \E h \in Handlers : InServerRun /\ DisconnectSession(h)

\* what every step of a connect changes
connecting == <<sockets, inflight>>

\* the health request settles, a timer that nothing cleared fires, and a socket
\* that is closing gets its close event; what the web app sends, and whether it
\* accepts or drops a socket, is up to the web app
FairConnect ==
  /\ \A h \in Handlers : WF_connecting(\E ok \in BOOLEAN : HealthDone(h, ok))
  /\ \A h \in Handlers : WF_connecting(ConnectTimeout(h))
  /\ \A s \in SocketIds : WF_connecting(sockets[s].readyState = "CLOSING" /\ SocketClosed(s))

SpecConnectLive == Init /\ [][NextConnect]_vars /\ FairConnect

\* C33: every connect_session call eventually returns, connected or with an
\* error, whatever the web app does with the socket.
C33_ConnectReturns ==
  \A h \in Handlers : (inflight[h].pc \in {"health", "handshake"}) ~> (inflight[h] = Idle)


\* C34: every request a proxied call has issued went to a base URL and carried
\* a session code that are not null and are those of the session connected
\* when the call was dispatched, for the second request of a call as for the
\* first, whatever happened to the session in between.
C34_RequestSession ==
  \A h \in Handlers :
    inflight[h].pc = "remote" =>
      /\ inflight[h].base # JsNull /\ inflight[h].base = inflight[h].base0
      /\ inflight[h].s # JsNull /\ inflight[h].s = inflight[h].code0


\* C35: in every reachable state no chunk of any project document has the
\* empty string as its id.
C35_IdsNonEmpty ==
  \A p \in ProjectNames : Exists(p) => \A ch \in Range(AllChunks(Doc(p))) : ch.id # <<>>


\* C36: the storage key of an existing project's document is not the storage
\* key of the history document of any project, for the names createProject
\* accepts.
C36_KeysDisjoint ==
  \A p, q \in {pP, pHistory} :
    (SafeName(p) = p /\ SafeName(q) = q /\ Exists(p)) => FilePath(p) # HistoryFilePath(q)


\* ---------------------------------------------------------------------------
\* Deleting a project and creating it again

\* what getHistory returns: the commits without their snapshots, newest first
GetHistoryOf(fs, name) ==
  LET history == LoadHistory(fs, name)
  IN [i \in DOMAIN history.commits |->
        [id |-> history.commits[i].id, source |-> history.commits[i].source,
         action |-> history.commits[i].action, stats |-> history.commits[i].stats]]

\* Store.getHistory
GetHistory(name) ==
  /\ ret' = Return("getHistory", [project |-> name], GetHistoryOf(files, name))
  /\ UNCHANGED <<files, recorded>>

\* one project created, changed, committed, read, rolled back, deleted and
\* created again
NextRecreate ==
  \/ InEditRun /\ CreateProject(pP)
  \/ \E c \in CategoryNames : InEditRun /\ CreateCategory(pP, c)
  \/ InEditRun /\ DeleteProject(pP)
  \/ InEditRun /\ CommitCall(pP, "edit", <<"b","r","o","w","s","e","r">>, MaxLedgerCommits)
  \/ \E c \in CommitIds(MaxLedgerCommits) :
       InEditRun /\ RollbackCall(pP, c, <<"m","c","p">>, MaxLedgerCommits)
  \/ \E c \in CommitIds(MaxLedgerCommits) : InEditRun /\ GetCommit(pP, c)
  \/ InEditRun /\ GetHistory(pP)

SpecRecreate == Init /\ [][NextRecreate]_vars

\* C37: when createProject has created a project, getHistory returns no commits
\* for it, whatever existed under that name before.
C37_FreshHistory ==
  [][ (calls' # calls /\ ret'.op = "createProject" /\ ret'.err = "none") =>
        GetHistoryOf(files', ret'.val.name) = <<>> ]_vars


\* C38: a step that brings the document of a project into existence is a step
\* of createProject or importJSON; every other operation leaves a project that
\* does not exist non-existent.
C38_OnlyCreateAndImport ==
  [][ \A p \in ProjectNames :
        (~Exists(p) /\ FilePath(p) \in DOMAIN files') =>
          ret'.op \in {"createProject", "importJSON"} ]_vars


\* C39: importJSON(p, records, c) writes no file other than the document of the
\* project named p, and the document it writes carries the name p.
C39_ImportWritesOwnDocument ==
  [][ (calls' # calls /\ ret'.op = "importJSON") =>
        LET p == ret'.args.project
        IN /\ FilesWritten \subseteq {FilePath(p)}
           /\ FilePath(p) \in FilesWritten => files'[FilePath(p)].name = p ]_vars

====
